---- MODULE Spec2Model ----
(***************************************************************************)
(* Milestone engine of docs/app.js (computeGameMilestones): the sort of    *)
(* DATA.games, the single forward pass that attaches badges to each game,  *)
(* and the final summary written to window.badgeTrackingData.              *)
(*                                                                         *)
(* Conventions of the model                                                *)
(*  - A JavaScript string that the code orders or slices (DateSort,        *)
(*    TimeSort, GameID, date_yyyymmdd) is a sequence of character codes    *)
(*    (ASCII).  The empty string is << >>.                                 *)
(*  - A string that the code only tests for emptiness and equality (team,  *)
(*    venue, state, conference, player names) is a TLA+ string; "" is the  *)
(*    empty / undefined value.  None of these names contains '|', so the   *)
(*    '|'-joined object keys of the source are modelled as tuples.         *)
(*  - A JavaScript object used as a map is a function whose DOMAIN is the  *)
(*    set of keys present.                                                 *)
(*  - Time values are counted in hours instead of milliseconds (every      *)
(*    value the code produces is a whole number of hours).                 *)
(***************************************************************************)
EXTENDS Integers, Sequences, FiniteSets, TLC

VARIABLES
    DATA,               \* the page's data: games, playerGames, conferenceChecklist, teamAliases, teams
    sortImpl,           \* which Array.prototype.sort implementation the JavaScript engine has
    now,                \* the wall-clock day of the current execution (never read by the code)
    pc,                 \* position in computeGameMilestones: "start", "loop", "done";
                        \* "thrown" after the catch of line 749
    allGames,           \* the sorted copy of DATA.games
    index,              \* forEach index: number of games already processed
    fn,                 \* the local variables of computeGameMilestones
    gameMilestones,     \* module-level let gameMilestones
    badgeTrackingData,  \* window.badgeTrackingData
    run,                \* number of the execution (page load) in progress
    firstOut            \* output of the first execution, once a second one has started

vars == <<DATA, sortImpl, now, pc, allGames, index, fn, gameMilestones,
          badgeTrackingData, run, firstOut>>

-----------------------------------------------------------------------------
(* Strings as sequences of character codes                                 *)

\* '0'
Zero == 48

\* "2024" written as digits <<2,0,2,4>>
D(digits) == [i \in 1..Len(digits) |-> Zero + digits[i]]

IsDigit(c) == c >= Zero /\ c <= Zero + 9

Min(a, b) == IF a < b THEN a ELSE b

Max(a, b) == IF a > b THEN a ELSE b

\* String.prototype.slice(from, to) with 0 <= from <= to (0-based, end exclusive)
Slice(s, from, to) == SubSeq(s, Min(from, Len(s)) + 1, Min(to, Len(s)))

RECURSIVE StrCmp(_, _)
\* Lexicographic comparison by character code: -1, 0 or 1
StrCmp(a, b) ==
    IF a = << >> /\ b = << >> THEN 0
    ELSE IF a = << >> THEN -1
    ELSE IF b = << >> THEN 1
    ELSE IF Head(a) < Head(b) THEN -1
    ELSE IF Head(a) > Head(b) THEN 1
    ELSE StrCmp(Tail(a), Tail(b))

\* a.localeCompare(b); on the digit strings of the model the collation order
\* is the character-code order
localeCompare(a, b) == StrCmp(a, b)

\* the relational operator < on two strings
StrLess(a, b) == StrCmp(a, b) < 0

-----------------------------------------------------------------------------
(* The sort of DATA.games                                                  *)

GenderOrM(g) == IF g.Gender # "" THEN g.Gender ELSE "M"

\* the comparator passed to sort
compareGames(a, b) ==
    LET dateCompare == localeCompare(a.DateSort, b.DateSort)
        timeA == a.TimeSort
        timeB == b.TimeSort
    IN  IF dateCompare # 0 THEN dateCompare
        ELSE IF timeA # << >> /\ timeB # << >> /\ timeA # timeB
             THEN localeCompare(timeA, timeB)
        ELSE IF GenderOrM(a) # GenderOrM(b)
             THEN (IF GenderOrM(a) = "W" THEN -1 ELSE 1)
        ELSE localeCompare(a.GameID, b.GameID)

Reverse(s) == [i \in 1..Len(s) |-> s[Len(s) + 1 - i]]

RECURSIVE RunEnd(_, _, _)
\* CountAndMakeRun: last index of the run that starts at 1 (Len(work) >= 2)
RunEnd(work, idx, isDescending) ==
    IF idx > Len(work) THEN idx - 1
    ELSE LET order == compareGames(work[idx], work[idx - 1])
         IN  IF (isDescending /\ order >= 0) \/ (~isDescending /\ order < 0)
             THEN idx - 1
             ELSE RunEnd(work, idx + 1, isDescending)

RECURSIVE BinarySearch(_, _, _, _)
\* the place of pivot in the sorted prefix work[left .. right-1]
BinarySearch(work, pivot, left, right) ==
    IF left < right
    THEN LET mid == left + ((right - left) \div 2)
         IN  IF compareGames(pivot, work[mid]) < 0
             THEN BinarySearch(work, pivot, left, mid)
             ELSE BinarySearch(work, pivot, mid + 1, right)
    ELSE left

MoveTo(work, start, pos) ==
    SubSeq(work, 1, pos - 1) \o <<work[start]>> \o SubSeq(work, pos, start - 1)
        \o SubSeq(work, start + 1, Len(work))

RECURSIVE BinaryInsertionSort(_, _)
BinaryInsertionSort(work, start) ==
    IF start > Len(work) THEN work
    ELSE BinaryInsertionSort(
            MoveTo(work, start, BinarySearch(work, work[start], 1, start)),
            start + 1)

\* TimSort on an array shorter than its minimum run length: one natural run,
\* reversed when descending, then binary insertion of the rest (V8)
TimSort(arr) ==
    IF Len(arr) < 2 THEN arr
    ELSE LET isDescending == compareGames(arr[2], arr[1]) < 0
             runLength == RunEnd(arr, 3, isDescending)
             work == IF isDescending
                     THEN Reverse(SubSeq(arr, 1, runLength))
                            \o SubSeq(arr, runLength + 1, Len(arr))
                     ELSE arr
         IN  BinaryInsertionSort(work, runLength + 1)

RECURSIVE Merge(_, _)
Merge(l, r) ==
    IF l = << >> THEN r
    ELSE IF r = << >> THEN l
    ELSE IF compareGames(Head(l), Head(r)) <= 0
         THEN <<Head(l)>> \o Merge(Tail(l), r)
         ELSE <<Head(r)>> \o Merge(l, Tail(r))

RECURSIVE MergeSort(_)
\* a stable top-down merge sort (SpiderMonkey, JavaScriptCore)
MergeSort(arr) ==
    IF Len(arr) < 2 THEN arr
    ELSE LET mid == Len(arr) \div 2
         IN  Merge(MergeSort(SubSeq(arr, 1, mid)),
                   MergeSort(SubSeq(arr, mid + 1, Len(arr))))

SortImpls == {"timsort", "mergesort"}

\* (DATA.games || []).slice().sort(comparator) on the engine impl
SortGames(games, impl) ==
    IF impl = "timsort" THEN TimSort(games) ELSE MergeSort(games)

-----------------------------------------------------------------------------
(* Dates                                                                   *)

HoursPerDay == 24

RECURSIVE DigitsValue(_, _)
\* the number written by a string of digits
DigitsValue(s, acc) ==
    IF s = << >> THEN acc
    ELSE DigitsValue(Tail(s), acc * 10 + (Head(s) - Zero))

AllDigits(s) == \A i \in 1..Len(s) : IsDigit(s[i])

IsLeapYear(y) == (y % 4 = 0 /\ y % 100 # 0) \/ y % 400 = 0

DaysInMonth(y, m) ==
    IF m = 2 THEN (IF IsLeapYear(y) THEN 29 ELSE 28)
    ELSE IF m \in {4, 6, 9, 11} THEN 30 ELSE 31

\* the year and the day of the year, both counted from 1 March
YearFromMarch(y, m) == IF m <= 2 THEN y - 1 ELSE y

DayFromMarch(m, d) == ((153 * (IF m > 2 THEN m - 3 ELSE m + 9) + 2) \div 5) + d - 1

DaysOfYearFromMarch(yy, doy) ==
    (yy \div 400) * 146097
    + (yy % 400) * 365 + ((yy % 400) \div 4) - ((yy % 400) \div 100) + doy - 719468

\* days from 1970-01-01 to the civil date y-m-d (proleptic Gregorian, y >= 1)
DaysFromCivil(y, m, d) == DaysOfYearFromMarch(YearFromMarch(y, m), DayFromMarch(m, d))

NaN == [nan |-> TRUE, t |-> 0]

\* the time value of year y, month m, day d at UTC midnight, in hours; an
\* invalid Date when they name no calendar day
DateUTC(y, m, d) ==
    IF y >= 1 /\ m >= 1 /\ m <= 12 /\ d >= 1 /\ d <= DaysInMonth(y, m)
    THEN [nan |-> FALSE, t |-> DaysFromCivil(y, m, d) * HoursPerDay]
    ELSE NaN

\* new Date(ys + '-' + ms + '-' + ds): the date-only form YYYY-MM-DD is UTC
\* midnight; a string that is not of this form gives an invalid Date
DateOf(ys, ms, ds) ==
    IF /\ Len(ys) = 4 /\ Len(ms) = 2 /\ Len(ds) = 2
       /\ AllDigits(ys) /\ AllDigits(ms) /\ AllDigits(ds)
    THEN DateUTC(DigitsValue(ys, 0), DigitsValue(ms, 0), DigitsValue(ds, 0))
    ELSE NaN

\* new Date(s.slice(0,4) + '-' + s.slice(4,6) + '-' + s.slice(6,8))
ParseDate(s) == DateOf(Slice(s, 0, 4), Slice(s, 4, 6), Slice(s, 6, 8))

\* Math.round(k / HoursPerDay) for an integer k: floor(k / 24 + 1/2)
RoundDays(k) == (2 * k + HoursPerDay) \div (2 * HoursPerDay)

\* Math.round((thisDate - lastDate) / one day); NaN when a date is invalid
DiffOf(lastDate, thisDate) ==
    IF lastDate.nan \/ thisDate.nan THEN NaN
    ELSE [nan |-> FALSE, t |-> RoundDays(thisDate.t - lastDate.t)]

DiffDays(lastGameDate, dateSort) == DiffOf(ParseDate(lastGameDate), ParseDate(dateSort))

-----------------------------------------------------------------------------
(* Objects used as maps                                                    *)

EmptyMap == << >>

Has(m, k) == k \in DOMAIN m

Get(m, k, default) == IF k \in DOMAIN m THEN m[k] ELSE default

Put(m, k, v) == [x \in DOMAIN m \cup {k} |-> IF x = k THEN v ELSE m[x]]

SeqToSet(s) == {s[i] : i \in 1..Len(s)}

-----------------------------------------------------------------------------
(* Conference lookup                                                       *)

DEFUNCT_TEAM_CONFERENCES == [t \in {"St. Francis (NY)"} |-> "NEC"]

RECURSIVE FirstConfWith(_, _)
\* the first checklist entry, in Object.entries order, that lists teamName
FirstConfWith(checklist, teamName) ==
    IF checklist = << >> THEN ""
    ELSE LET confData == Head(checklist)
         IN  IF \E i \in 1..Len(confData.teams) :
                    \/ confData.teams[i].team = teamName
                    \/ confData.teams[i].name = teamName
             THEN confData.confName
             ELSE FirstConfWith(Tail(checklist), teamName)

RECURSIVE FirstTeamConference(_, _)
FirstTeamConference(teams, teamName) ==
    IF teams = << >> THEN ""
    ELSE IF Head(teams).Team = teamName /\ Head(teams).Conference # ""
         THEN Head(teams).Conference
         ELSE FirstTeamConference(Tail(teams), teamName)

getTeamConference(teamName) ==
    IF teamName = "" THEN ""
    ELSE IF teamName \in DOMAIN DEFUNCT_TEAM_CONFERENCES
         THEN DEFUNCT_TEAM_CONFERENCES[teamName]
    ELSE LET c == FirstConfWith(DATA.conferenceChecklist, teamName)
         IN  IF c # "" THEN c
             ELSE FirstTeamConference(DATA.teams, teamName)

getGameConference(game, teamType) ==
    IF teamType = "away" /\ game.AwayConf # "" THEN game.AwayConf
    ELSE IF teamType = "home" /\ game.HomeConf # "" THEN game.HomeConf
    ELSE getTeamConference(IF teamType = "away" THEN game.AwayTeam ELSE game.HomeTeam)

-----------------------------------------------------------------------------
(* Start of computeGameMilestones: the locals before the first game        *)

MILESTONE_COUNTS == {1, 5, 10, 15, 20, 25, 30, 35, 40, 45, 50, 75, 100, 150, 200}

GAME_MILESTONES == {1, 10, 25, 50, 75, 100, 150, 200, 250, 500}

D1_MILESTONES == {1, 10, 25, 50, 75, 100, 150, 200, 250, 500}

D1_TEAM_MILESTONES == {5 * k : k \in 1..20}

SkippedConfs == {"All D1", "Historical/Other"}

RECURSIVE ConferenceTeamCounts(_)
\* conferenceTeamCounts: totalTeams of every checklist entry but the two
\* aggregate entries
ConferenceTeamCounts(checklist) ==
    IF checklist = << >> THEN EmptyMap
    ELSE LET confData == Head(checklist)
             rest == ConferenceTeamCounts(Tail(checklist))
         IN  IF confData.confName \in SkippedConfs THEN rest
             ELSE Put(rest, confData.confName, confData.totalTeams)

\* reverseAliases[canonical]: the aliases of canonical, and canonical itself
ReverseAliases(teamAliases, canonical) ==
    IF \E a \in DOMAIN teamAliases : teamAliases[a] = canonical
    THEN {a \in DOMAIN teamAliases : teamAliases[a] = canonical} \cup {canonical}
    ELSE {}

\* mutant: the roster names only, without the aliases
ActualD1Teams_RosterOnly(checklist, teamAliases) ==
    UNION { UNION { IF t.team = "" THEN {} ELSE {t.team}
                    : t \in SeqToSet(checklist[i].teams) }
            : i \in {j \in 1..Len(checklist) : checklist[j].confName \notin SkippedConfs} }

\* actualD1Teams
ActualD1Teams(checklist, teamAliases) ==
    UNION { UNION { IF t.team = "" THEN {}
                    ELSE {t.team}
                         \cup (IF Has(teamAliases, t.team) /\ teamAliases[t.team] # ""
                               THEN {teamAliases[t.team]} ELSE {})
                         \cup ReverseAliases(teamAliases, t.team)
                    : t \in SeqToSet(checklist[i].teams) }
            : i \in {j \in 1..Len(checklist) : checklist[j].confName \notin SkippedConfs} }

\* mutant: the streak is measured from the day of the execution
InitLocals_FromToday ==
    [ teamCounts |-> EmptyMap, teamRecords |-> EmptyMap, venueCounts |-> EmptyMap,
      matchupsSeen |-> {}, confMatchupCounts |-> EmptyMap, confTeamCounts |-> EmptyMap,
      playerTeams |-> EmptyMap, venueOrder |-> << >>, confTeamsSeen |-> EmptyMap,
      confVenuesSeen |-> {}, confCompleted |-> {}, statesSeen |-> {},
      stateOrder |-> << >>,
      currentStreak |-> 0, lastGameDate |-> now, maxStreak |-> 0,
      streakHistory |-> << >>,
      conferenceTeamCounts |-> ConferenceTeamCounts(DATA.conferenceChecklist),
      gameCount |-> 0, d1GameCount |-> 0, d1VenueCount |-> 0, d1VenuesSeen |-> {},
      d1TeamsSeen |-> [g \in {"M", "W"} |-> {}],
      actualD1Teams |-> ActualD1Teams(DATA.conferenceChecklist, DATA.teamAliases) ]

InitLocals ==
    [ teamCounts |-> EmptyMap, teamRecords |-> EmptyMap, venueCounts |-> EmptyMap,
      matchupsSeen |-> {}, confMatchupCounts |-> EmptyMap, confTeamCounts |-> EmptyMap,
      playerTeams |-> EmptyMap, venueOrder |-> << >>, confTeamsSeen |-> EmptyMap,
      confVenuesSeen |-> {}, confCompleted |-> {}, statesSeen |-> {},
      stateOrder |-> << >>,
      currentStreak |-> 0, lastGameDate |-> << >>, maxStreak |-> 0,
      streakHistory |-> << >>,
      conferenceTeamCounts |-> ConferenceTeamCounts(DATA.conferenceChecklist),
      gameCount |-> 0, d1GameCount |-> 0, d1VenueCount |-> 0, d1VenuesSeen |-> {},
      d1TeamsSeen |-> [g \in {"M", "W"} |-> {}],
      actualD1Teams |-> ActualD1Teams(DATA.conferenceChecklist, DATA.teamAliases) ]

-----------------------------------------------------------------------------
(* The body of allGames.forEach: one game                                  *)
(* c = [fn |-> the locals, gm |-> gameMilestones, thrown |-> whether a      *)
(* TypeError has been raised] is threaded through the                      *)
(* rules in source order.                                                  *)

\* a badge {type, text, title}: who and n are the names and the number that
\* text and title interpolate, w is whether they carry the women's suffix
Badge(type, who, n, w) == [type |-> type, who |-> who, n |-> n, w |-> w]

\* a push onto the list of every game that has one
Push_EveryList(c, gameId, badge) ==
    [c EXCEPT !.gm = [id \in DOMAIN c.gm |-> [c.gm[id] EXCEPT !.badges = Append(@, badge)]]]

\* gameMilestones[gameId].badges.push(badge)
Push(c, gameId, badge) == [c EXCEPT !.gm[gameId].badges = Append(@, badge)]

RECURSIVE Decimal(_)
\* the decimal digits of a number, as a string
Decimal(n) == IF n < 10 THEN <<Zero + n>> ELSE Append(Decimal(n \div 10), Zero + (n % 10))

\* game.GameID || `game-${index}`
GameIdOf(game, i) ==
    IF game.GameID # << >> THEN game.GameID
    ELSE <<103, 97, 109, 101, 45>> \o Decimal(i)

\* mutant: the milestone test reads the count before the increment
GameCountRule_BeforeIncrement(c, gameId) ==
    LET c1 == [c EXCEPT !.fn.gameCount = @ + 1]
    IN  IF c.fn.gameCount \in GAME_MILESTONES
        THEN Push(c1, gameId, Badge("game-count", << >>, c1.fn.gameCount, FALSE))
        ELSE c1

\* lines 501-509
GameCountRule(c, gameId) ==
    LET c1 == [c EXCEPT !.fn.gameCount = @ + 1]
    IN  IF c1.fn.gameCount \in GAME_MILESTONES
        THEN Push(c1, gameId, Badge("game-count", << >>, c1.fn.gameCount, FALSE))
        ELSE c1

\* mutant: every game counts as a D1 game
D1GameRule_EveryGame(c, gameId, division) ==
    LET c1 == [c EXCEPT !.fn.d1GameCount = @ + 1]
    IN  IF c1.fn.d1GameCount \in D1_MILESTONES
        THEN Push(c1, gameId, Badge("d1-game", << >>, c1.fn.d1GameCount, FALSE))
        ELSE c1

\* mutant: the D1 count is the run of consecutive D1 games
D1GameRule_ResetOnOther(c, gameId, division) ==
    IF division = "D1"
    THEN LET c1 == [c EXCEPT !.fn.d1GameCount = @ + 1]
         IN  IF c1.fn.d1GameCount \in D1_MILESTONES
             THEN Push(c1, gameId, Badge("d1-game", << >>, c1.fn.d1GameCount, FALSE))
             ELSE c1
    ELSE [c EXCEPT !.fn.d1GameCount = 0]

\* lines 511-521
D1GameRule(c, gameId, division) ==
    IF division = "D1"
    THEN LET c1 == [c EXCEPT !.fn.d1GameCount = @ + 1]
         IN  IF c1.fn.d1GameCount \in D1_MILESTONES
             THEN Push(c1, gameId, Badge("d1-game", << >>, c1.fn.d1GameCount, FALSE))
             ELSE c1
    ELSE c

\* mutant: a second game on the same day extends the streak
StreakUpdate_SameDayCounts(f, dateSort) ==
    IF f.lastGameDate # << >> /\ dateSort # << >>
    THEN LET diffDays == DiffDays(f.lastGameDate, dateSort)
         IN  IF ~diffDays.nan /\ diffDays.t \in {0, 1}
             THEN [f EXCEPT !.currentStreak = @ + 1]
             ELSE [f EXCEPT !.streakHistory = IF f.currentStreak >= 2
                                              THEN Append(@, f.currentStreak) ELSE @,
                            !.maxStreak = Max(@, f.currentStreak),
                            !.currentStreak = 1]
    ELSE [f EXCEPT !.currentStreak = 1]

\* lines 524-539: the update of currentStreak, maxStreak and streakHistory
StreakUpdate(f, dateSort) ==
    IF f.lastGameDate # << >> /\ dateSort # << >>
    THEN LET diffDays == DiffDays(f.lastGameDate, dateSort)
         IN  IF ~diffDays.nan /\ diffDays.t = 0 THEN f
             ELSE IF ~diffDays.nan /\ diffDays.t = 1
                  THEN [f EXCEPT !.currentStreak = @ + 1]
             ELSE [f EXCEPT !.streakHistory = IF f.currentStreak >= 2
                                              THEN Append(@, f.currentStreak) ELSE @,
                            !.maxStreak = Max(@, f.currentStreak),
                            !.currentStreak = 1]
    ELSE [f EXCEPT !.currentStreak = 1]

\* lines 523-548
StreakRule(c, gameId, dateSort) ==
    LET f1 == StreakUpdate(c.fn, dateSort)
        f2 == IF dateSort # << >> THEN [f1 EXCEPT !.lastGameDate = dateSort] ELSE f1
        c1 == [c EXCEPT !.fn = f2]
    IN  IF f2.currentStreak >= 2
        THEN Push(c1, gameId, Badge("streak", << >>, f2.currentStreak, FALSE))
        ELSE c1

\* lines 550-559
StateRule(c, gameId, state) ==
    IF state # "" /\ state \notin c.fn.statesSeen
    THEN LET c1 == [c EXCEPT !.fn.statesSeen = @ \cup {state},
                             !.fn.stateOrder = Append(@, state)]
         IN  Push(c1, gameId,
                  Badge("new-state", <<state>>, Cardinality(c1.fn.statesSeen), FALSE))
    ELSE c

\* lines 563-579: a venue not counted yet
NewVenue(c, gameId, venue, division) ==
    LET c1 == [c EXCEPT !.fn.venueCounts = Put(@, venue, 0),
                        !.fn.venueOrder = Append(@, venue)]
        venueNum == Len(c1.fn.venueOrder)
        c2 == IF venueNum \in MILESTONE_COUNTS
              THEN Push(c1, gameId, Badge("venue-count", <<venue>>, venueNum, FALSE))
              ELSE c1
    IN  IF division = "D1" /\ venue \notin c2.fn.d1VenuesSeen
        THEN [c2 EXCEPT !.fn.d1VenuesSeen = @ \cup {venue}, !.fn.d1VenueCount = @ + 1]
        ELSE c2

\* mutant: every visit after the first gets a venue-visit badge
VenueRule_EveryVisit(c, gameId, venue, division) ==
    IF venue = "" THEN c
    ELSE LET c1 == IF Get(c.fn.venueCounts, venue, 0) = 0
                   THEN NewVenue(c, gameId, venue, division) ELSE c
             c2 == [c1 EXCEPT !.fn.venueCounts[venue] = @ + 1]
             n  == c2.fn.venueCounts[venue]
         IN  IF n > 1
             THEN Push(c2, gameId, Badge("venue-visit", <<venue>>, n, FALSE))
             ELSE c2

\* mutant: the venue-visit test without venueCounts[venue] > 1
VenueRule_FirstVisitToo(c, gameId, venue, division) ==
    IF venue = "" THEN c
    ELSE LET c1 == IF Get(c.fn.venueCounts, venue, 0) = 0
                   THEN NewVenue(c, gameId, venue, division) ELSE c
             c2 == [c1 EXCEPT !.fn.venueCounts[venue] = @ + 1]
             n  == c2.fn.venueCounts[venue]
         IN  IF n \in MILESTONE_COUNTS
             THEN Push(c2, gameId, Badge("venue-visit", <<venue>>, n, FALSE))
             ELSE c2

\* lines 561-588
VenueRule(c, gameId, venue, division) ==
    IF venue = "" THEN c
    ELSE LET c1 == IF Get(c.fn.venueCounts, venue, 0) = 0
                   THEN NewVenue(c, gameId, venue, division) ELSE c
             c2 == [c1 EXCEPT !.fn.venueCounts[venue] = @ + 1]
             n  == c2.fn.venueCounts[venue]
         IN  IF n > 1 /\ n \in MILESTONE_COUNTS
             THEN Push(c2, gameId, Badge("venue-visit", <<venue>>, n, FALSE))
             ELSE c2

\* lines 594-615: a (team, gender) not counted yet
NewTeam(c, gameId, team, gender) ==
    LET c1 == Push([c EXCEPT !.fn.teamCounts = Put(@, <<team, gender>>, 0)], gameId,
                   Badge("new-team", <<team>>, 0, gender = "W"))
    IN  IF team \in c1.fn.actualD1Teams
        THEN IF gender \notin DOMAIN c1.fn.d1TeamsSeen
             THEN \* d1TeamsSeen[gender] is undefined: .add raises a TypeError
                  [c1 EXCEPT !.thrown = TRUE]
             ELSE
             LET c2 == [c1 EXCEPT !.fn.d1TeamsSeen[gender] = @ \cup {team}]
                 count == Cardinality(c2.fn.d1TeamsSeen[gender])
             IN  IF count \in D1_TEAM_MILESTONES
                 THEN Push(c2, gameId, Badge("d1-team", << >>, count, gender = "W"))
                 ELSE c2
        ELSE c1

\* lines 625-631
RecordRule(c, game, team, gender) ==
    LET teamKey == <<team, gender>>
        c1 == IF Has(c.fn.teamRecords, teamKey) THEN c
              ELSE [c EXCEPT !.fn.teamRecords = Put(@, teamKey, [wins |-> 0, losses |-> 0])]
        awayScore == game.AwayScore
        homeScore == game.HomeScore
        isWinner == \/ (team = game.AwayTeam /\ awayScore > homeScore)
                    \/ (team = game.HomeTeam /\ homeScore > awayScore)
    IN  IF isWinner THEN [c1 EXCEPT !.fn.teamRecords[teamKey].wins = @ + 1]
        ELSE [c1 EXCEPT !.fn.teamRecords[teamKey].losses = @ + 1]

\* mutant: the visit badge does not require more than one visit
TeamRule_FirstVisit(c, gameId, game, team, gender) ==
    IF team = "" THEN c
    ELSE LET teamKey == <<team, gender>>
             c1 == IF Get(c.fn.teamCounts, teamKey, 0) = 0
                   THEN NewTeam(c, gameId, team, gender) ELSE c
             c2 == [c1 EXCEPT !.fn.teamCounts[teamKey] = @ + 1]
             n  == c2.fn.teamCounts[teamKey]
             c3 == IF n \in MILESTONE_COUNTS
                   THEN Push(c2, gameId, Badge("team-visit", <<team>>, n, gender = "W"))
                   ELSE c2
         IN  IF c1.thrown THEN c1 ELSE RecordRule(c3, game, team, gender)

\* mutant: a side without a team name is counted like any other
TeamRule_EmptyName(c, gameId, game, team, gender) ==
    LET teamKey == <<team, gender>>
        c1 == IF Get(c.fn.teamCounts, teamKey, 0) = 0
              THEN NewTeam(c, gameId, team, gender) ELSE c
        c2 == [c1 EXCEPT !.fn.teamCounts[teamKey] = @ + 1]
        n  == c2.fn.teamCounts[teamKey]
        c3 == IF n > 1 /\ n \in MILESTONE_COUNTS
              THEN Push(c2, gameId, Badge("team-visit", <<team>>, n, gender = "W"))
              ELSE c2
    IN  IF c1.thrown THEN c1 ELSE RecordRule(c3, game, team, gender)

\* lines 591-632: one of [awayTeam, homeTeam]
TeamRule(c, gameId, game, team, gender) ==
    IF team = "" THEN c
    ELSE LET teamKey == <<team, gender>>
             c1 == IF Get(c.fn.teamCounts, teamKey, 0) = 0
                   THEN NewTeam(c, gameId, team, gender) ELSE c
             c2 == [c1 EXCEPT !.fn.teamCounts[teamKey] = @ + 1]
             n  == c2.fn.teamCounts[teamKey]
             c3 == IF n > 1 /\ n \in MILESTONE_COUNTS
                   THEN Push(c2, gameId, Badge("team-visit", <<team>>, n, gender = "W"))
                   ELSE c2
         IN  IF c1.thrown THEN c1 ELSE RecordRule(c3, game, team, gender)

\* mutant: new-conf is gated on the seen-set of (conference, gender)
ConfRule_PerGender(c, gameId, conf, team, gender) ==
    IF conf = "" \/ conf = "Historical/Other" THEN c
    ELSE LET confGenderKey == <<conf, gender>>
             seen == Get(c.fn.confTeamsSeen, confGenderKey, {})
             wasNew == team \notin seen
             c1 == [c EXCEPT !.fn.confTeamsSeen = Put(@, confGenderKey, seen \cup {team})]
             c2 == IF seen = {}
                   THEN Push([c1 EXCEPT !.fn.confTeamCounts =
                                            Put(@, conf, Get(c1.fn.confTeamCounts, conf, 0))],
                             gameId, Badge("new-conf", <<conf>>, 0, FALSE))
                   ELSE c1
             c3 == IF wasNew THEN [c2 EXCEPT !.fn.confTeamCounts[conf] = @ + 1] ELSE c2
             totalTeams == Get(c3.fn.conferenceTeamCounts, conf, 0)
         IN  IF /\ totalTeams > 0
                /\ Cardinality(c3.fn.confTeamsSeen[confGenderKey]) >= totalTeams
                /\ confGenderKey \notin c3.fn.confCompleted
             THEN Push([c3 EXCEPT !.fn.confCompleted = @ \cup {confGenderKey}], gameId,
                       Badge("conf-complete", <<conf>>, totalTeams, gender = "W"))
             ELSE c3

\* lines 635-662: one of the two {conf, team} sides
ConfRule(c, gameId, conf, team, gender) ==
    IF conf = "" \/ conf = "Historical/Other" THEN c
    ELSE LET confGenderKey == <<conf, gender>>
             seen == Get(c.fn.confTeamsSeen, confGenderKey, {})
             wasNew == team \notin seen
             c1 == [c EXCEPT !.fn.confTeamsSeen = Put(@, confGenderKey, seen \cup {team})]
             c2 == IF Get(c1.fn.confTeamCounts, conf, 0) = 0
                   THEN Push([c1 EXCEPT !.fn.confTeamCounts = Put(@, conf, 0)], gameId,
                             Badge("new-conf", <<conf>>, 0, FALSE))
                   ELSE c1
             c3 == IF wasNew THEN [c2 EXCEPT !.fn.confTeamCounts[conf] = @ + 1] ELSE c2
             totalTeams == Get(c3.fn.conferenceTeamCounts, conf, 0)
         IN  IF /\ totalTeams > 0
                /\ Cardinality(c3.fn.confTeamsSeen[confGenderKey]) >= totalTeams
                /\ confGenderKey \notin c3.fn.confCompleted
             THEN Push([c3 EXCEPT !.fn.confCompleted = @ \cup {confGenderKey}], gameId,
                       Badge("conf-complete", <<conf>>, totalTeams, gender = "W"))
             ELSE c3

\* mutant: the key keeps the order of the two names
SortedPairKey_Unsorted(a, b) == <<a, b>>

\* [a, b].sort().join('|'): the same key for (a, b) and (b, a), and a
\* different key for every other pair
SortedPairKey(a, b) == {a, b}

\* mutant: the matchup key without the gender
MatchupRule_AnyGender(c, gameId, awayTeam, homeTeam, gender) ==
    IF awayTeam # "" /\ homeTeam # ""
    THEN LET matchupKey == <<SortedPairKey(awayTeam, homeTeam), "">>
         IN  IF matchupKey \notin c.fn.matchupsSeen
             THEN Push([c EXCEPT !.fn.matchupsSeen = @ \cup {matchupKey}], gameId,
                       Badge("new-matchup", <<awayTeam, homeTeam>>, 0, gender = "W"))
             ELSE c
    ELSE c

\* lines 664-675
MatchupRule(c, gameId, awayTeam, homeTeam, gender) ==
    IF awayTeam # "" /\ homeTeam # ""
    THEN LET matchupKey == <<SortedPairKey(awayTeam, homeTeam), gender>>
         IN  IF matchupKey \notin c.fn.matchupsSeen
             THEN Push([c EXCEPT !.fn.matchupsSeen = @ \cup {matchupKey}], gameId,
                       Badge("new-matchup", <<awayTeam, homeTeam>>, 0, gender = "W"))
             ELSE c
    ELSE c

\* mutant: without the test awayConf !== homeConf
ConfMatchupRule_SameConfToo(c, gameId, awayConf, homeConf) ==
    IF awayConf # "" /\ homeConf # ""
    THEN LET confKey == SortedPairKey(awayConf, homeConf)
             c1 == IF Get(c.fn.confMatchupCounts, confKey, 0) = 0
                   THEN Push([c EXCEPT !.fn.confMatchupCounts = Put(@, confKey, 0)], gameId,
                             Badge("conf-matchup", <<awayConf, homeConf>>, 0, FALSE))
                   ELSE c
         IN  [c1 EXCEPT !.fn.confMatchupCounts[confKey] = @ + 1]
    ELSE c

\* lines 677-689
ConfMatchupRule(c, gameId, awayConf, homeConf) ==
    IF awayConf # "" /\ homeConf # "" /\ awayConf # homeConf
    THEN LET confKey == SortedPairKey(awayConf, homeConf)
             c1 == IF Get(c.fn.confMatchupCounts, confKey, 0) = 0
                   THEN Push([c EXCEPT !.fn.confMatchupCounts = Put(@, confKey, 0)], gameId,
                             Badge("conf-matchup", <<awayConf, homeConf>>, 0, FALSE))
                   ELSE c
         IN  [c1 EXCEPT !.fn.confMatchupCounts[confKey] = @ + 1]
    ELSE c

\* lines 691-697
ConfVenueRule(c, venue, homeConf) ==
    IF venue # "" /\ homeConf # "" /\ homeConf # "Historical/Other"
    THEN [c EXCEPT !.fn.confVenuesSeen = @ \cup {<<homeConf, venue>>}]
    ELSE c

\* String.prototype.toLowerCase on the player names of the model
toLowerCase(s) ==
    CASE s = "Ann Lee" -> "ann lee"
      [] s = "Bo Diaz" -> "bo diaz"
      [] OTHER -> s

\* Set.prototype.add on a Set kept in insertion order
SetAdd(seq, x) == IF x \in SeqToSet(seq) THEN seq ELSE Append(seq, x)

\* mutant: without the comparison of the dates
hasPlayerAtSchoolBefore_AnyDate(playerId, playerName, prevSchool, currentDateSort) ==
    \E k \in 1..Len(DATA.playerGames) :
        LET pg2 == DATA.playerGames[k]
            idMatch == playerId # "" /\ pg2.player_id = playerId
            nameMatch == /\ playerId = ""
                         /\ pg2.player # ""
                         /\ toLowerCase(pg2.player) = toLowerCase(playerName)
        IN  /\ idMatch \/ nameMatch
            /\ pg2.team = prevSchool

\* lines 713-719
hasPlayerAtSchoolBefore(playerId, playerName, prevSchool, currentDateSort) ==
    \E k \in 1..Len(DATA.playerGames) :
        LET pg2 == DATA.playerGames[k]
            idMatch == playerId # "" /\ pg2.player_id = playerId
            nameMatch == /\ playerId = ""
                         /\ pg2.player # ""
                         /\ toLowerCase(pg2.player) = toLowerCase(playerName)
        IN  /\ idMatch \/ nameMatch
            /\ pg2.team = prevSchool
            /\ StrLess(pg2.date_yyyymmdd, currentDateSort)

RECURSIVE SeedTeams(_, _, _, _, _)
\* lines 710-722: the previous schools on record before this game
SeedTeams(teams, playerId, playerName, prevSchools, currentDateSort) ==
    IF prevSchools = << >> THEN teams
    ELSE SeedTeams(
            IF hasPlayerAtSchoolBefore(playerId, playerName, Head(prevSchools), currentDateSort)
            THEN SetAdd(teams, Head(prevSchools)) ELSE teams,
            playerId, playerName, Tail(prevSchools), currentDateSort)

\* mutant: the current team is added only when a badge was emitted
TransferRule_AddOnBadge(c, gameId, game, pg) ==
    LET playerId == IF pg.player_id # "" THEN pg.player_id ELSE pg.player
        playerName == pg.player
        playerTeam == pg.team
    IN  IF playerId = "" \/ playerTeam = "" THEN c
        ELSE LET c1 == IF Has(c.fn.playerTeams, playerId) THEN c
                       ELSE [c EXCEPT !.fn.playerTeams =
                                Put(@, playerId,
                                    [name |-> playerName,
                                     teams |-> SeedTeams(<< >>, playerId, playerName,
                                                         pg.realgm_previous_schools,
                                                         game.DateSort)])]
                 teams == c1.fn.playerTeams[playerId].teams
             IN  IF Len(teams) > 0 /\ playerTeam \notin SeqToSet(teams)
                 THEN [Push(c1, gameId,
                            Badge("transfer", <<playerName>> \o teams \o <<playerTeam>>,
                                  0, FALSE))
                         EXCEPT !.fn.playerTeams[playerId].teams = SetAdd(@, playerTeam)]
                 ELSE c1

\* lines 701-734: one player appearance of the game
TransferRule(c, gameId, game, pg) ==
    LET playerId == IF pg.player_id # "" THEN pg.player_id ELSE pg.player
        playerName == pg.player
        playerTeam == pg.team
    IN  IF playerId = "" \/ playerTeam = "" THEN c
        ELSE LET c1 == IF Has(c.fn.playerTeams, playerId) THEN c
                       ELSE [c EXCEPT !.fn.playerTeams =
                                Put(@, playerId,
                                    [name |-> playerName,
                                     teams |-> SeedTeams(<< >>, playerId, playerName,
                                                         pg.realgm_previous_schools,
                                                         game.DateSort)])]
                 teams == c1.fn.playerTeams[playerId].teams
                 c2 == IF Len(teams) > 0 /\ playerTeam \notin SeqToSet(teams)
                       THEN Push(c1, gameId,
                                 Badge("transfer", <<playerName>> \o teams \o <<playerTeam>>,
                                       0, FALSE))
                       ELSE c1
             IN  [c2 EXCEPT !.fn.playerTeams[playerId].teams = SetAdd(@, playerTeam)]

RECURSIVE TransferRules(_, _, _, _)
\* gamePlayers.forEach
TransferRules(c, gameId, game, gamePlayers) ==
    IF gamePlayers = << >> THEN c
    ELSE TransferRules(TransferRule(c, gameId, game, Head(gamePlayers)),
                       gameId, game, Tail(gamePlayers))

\* mutant: the home team is handled before the away team
Rules_HomeFirst ==
    << "game count", "d1 game count", "streak", "state", "venue",
       "home team", "away team", "away conference", "home conference",
       "matchup", "conference matchup", "conference venue", "transfers" >>

\* the rules of the callback, in source order (lines 501-734); the team rule
\* and the conference rule run for the away side, then for the home side
Rules ==
    << "game count", "d1 game count", "streak", "state", "venue",
       "away team", "home team", "away conference", "home conference",
       "matchup", "conference matchup", "conference venue", "transfers" >>

\* one rule of the callback on one game; lines 487-497 are the LET
ApplyRule(rule, c, game, i) ==
    LET gameId   == GameIdOf(game, i)
        awayTeam == game.AwayTeam
        homeTeam == game.HomeTeam
        venue    == game.Venue
        state    == game.State
        gender   == IF game.Gender # "" THEN game.Gender ELSE "M"
        division == IF game.Division # "" THEN game.Division ELSE "D1"
        dateSort == game.DateSort
        awayConf == getGameConference(game, "away")
        homeConf == getGameConference(game, "home")
    IN  CASE rule = "game count"         -> GameCountRule(c, gameId)
          [] rule = "d1 game count"      -> D1GameRule(c, gameId, division)
          [] rule = "streak"             -> StreakRule(c, gameId, dateSort)
          [] rule = "state"              -> StateRule(c, gameId, state)
          [] rule = "venue"              -> VenueRule(c, gameId, venue, division)
          [] rule = "away team"          -> TeamRule(c, gameId, game, awayTeam, gender)
          [] rule = "home team"          -> TeamRule(c, gameId, game, homeTeam, gender)
          [] rule = "away conference"    -> ConfRule(c, gameId, awayConf, awayTeam, gender)
          [] rule = "home conference"    -> ConfRule(c, gameId, homeConf, homeTeam, gender)
          [] rule = "matchup"            -> MatchupRule(c, gameId, awayTeam, homeTeam, gender)
          [] rule = "conference matchup" -> ConfMatchupRule(c, gameId, awayConf, homeConf)
          [] rule = "conference venue"   -> ConfVenueRule(c, venue, homeConf)
          [] rule = "transfers"          ->
                TransferRules(c, gameId, game,
                              SelectSeq(DATA.playerGames,
                                        LAMBDA pg : pg.game_id = gameId))

RECURSIVE ApplyRules(_, _, _, _)
\* the rules one after the other: next is the state that the first rule
\* leaves; an exception ends the callback
ApplyRules(rules, c, game, i) ==
    IF rules = << >> \/ c.thrown THEN c
    ELSE CHOOSE out \in { ApplyRules(Tail(rules), next, game, i) :
                            next \in {ApplyRule(Head(rules), c, game, i)} } : TRUE

\* lines 486-735: the callback on game, the element at index i
PerGame(c, game, i) ==
    ApplyRules(Rules,
               [c EXCEPT !.gm = Put(@, GameIdOf(game, i),
                                    [badges |-> << >>, gameNumber |-> i + 1])],
               game, i)

\* mutant: the streak still open at the last game is not flushed
FinalizeStreak_NoFlush(f) ==
    [f EXCEPT !.maxStreak = Max(@, f.currentStreak)]

\* lines 737-739
FinalizeStreak(f) ==
    [f EXCEPT !.streakHistory = IF f.currentStreak >= 2 THEN Append(@, f.currentStreak) ELSE @,
              !.maxStreak = Max(@, f.currentStreak)]

\* lines 741-745
Summary(f) ==
    [ confTeamsSeen |-> f.confTeamsSeen, confCompleted |-> f.confCompleted,
      conferenceTeamCounts |-> f.conferenceTeamCounts, venueOrder |-> f.venueOrder,
      teamCounts |-> f.teamCounts, matchupsSeen |-> f.matchupsSeen,
      statesSeen |-> f.statesSeen, stateOrder |-> f.stateOrder,
      maxStreak |-> f.maxStreak, streakHistory |-> f.streakHistory,
      d1TeamsSeen |-> f.d1TeamsSeen ]

-----------------------------------------------------------------------------
(* The program as a state machine                                          *)

\* a value that is not there (the locals before the call, window.badgeTrackingData
\* before the first pass)
Undefined == [undefined |-> TRUE]

\* Begin without the assignment gameMilestones = {} of line 444
Begin_KeepMilestones ==
    /\ pc = "start"
    /\ allGames' = SortGames(DATA.games, sortImpl)
    /\ fn' = InitLocals
    /\ index' = 0
    /\ pc' = "loop"
    /\ UNCHANGED <<DATA, sortImpl, now, gameMilestones, badgeTrackingData, run, firstOut>>

\* lines 410-484: sort a copy of DATA.games and initialise the locals
Begin ==
    /\ pc = "start"
    /\ allGames' = SortGames(DATA.games, sortImpl)
    /\ fn' = InitLocals
    /\ gameMilestones' = EmptyMap
    /\ index' = 0
    /\ pc' = "loop"
    /\ UNCHANGED <<DATA, sortImpl, now, badgeTrackingData, run, firstOut>>

\* lines 486-735: one iteration of allGames.forEach
ProcessGame ==
    /\ pc = "loop"
    /\ index < Len(allGames)
    /\ \E c \in {PerGame([fn |-> fn, gm |-> gameMilestones, thrown |-> FALSE],
                          allGames[index + 1], index)} :
           /\ fn' = c.fn
           /\ gameMilestones' = c.gm
           /\ pc' = IF c.thrown THEN "thrown" ELSE pc
           /\ index' = IF c.thrown THEN index ELSE index + 1
    /\ UNCHANGED <<DATA, sortImpl, now, allGames, badgeTrackingData, run, firstOut>>

\* lines 737-745: flush the open streak and publish the summary
Finalize ==
    /\ pc = "loop"
    /\ index = Len(allGames)
    /\ fn' = FinalizeStreak(fn)
    /\ badgeTrackingData' = Summary(fn')
    /\ pc' = "done"
    /\ UNCHANGED <<DATA, sortImpl, now, allGames, index, gameMilestones, run, firstOut>>

Next == Begin \/ ProcessGame \/ Finalize

\* the days an execution can take place on
Clock == {D(<<2, 0, 2, 4, 0, 1, 0, 1>>), D(<<2, 0, 2, 4, 0, 1, 0, 2>>)}

\* a second, independent execution on the same DATA: the page is loaded again,
\* on any day, so every module-level binding is created anew (line 408)
Reload ==
    /\ pc = "done"
    /\ run = 1
    /\ run' = run + 1
    /\ firstOut' = [gameMilestones |-> gameMilestones, badgeTrackingData |-> badgeTrackingData]
    /\ now' \in Clock
    /\ pc' = "start"
    /\ allGames' = << >>
    /\ index' = 0
    /\ fn' = Undefined
    /\ gameMilestones' = EmptyMap
    /\ badgeTrackingData' = Undefined
    /\ UNCHANGED <<DATA, sortImpl>>

NextReload == Next \/ Reload

-----------------------------------------------------------------------------
(* Inputs                                                                  *)

\* a game record with every optional field missing
NoGame ==
    [ GameID |-> << >>, DateSort |-> << >>, TimeSort |-> << >>, Gender |-> "",
      Division |-> "", AwayTeam |-> "", HomeTeam |-> "", Venue |-> "", State |-> "",
      AwayConf |-> "", HomeConf |-> "", AwayScore |-> 0, HomeScore |-> 0 ]

\* all sequences over U of length at most n
SeqsUpTo(U, n) == UNION {[1..k -> U] : k \in 0..n}

\* GameID "1", "2", ... in input order: callers guarantee unique ids
WithIds(games) == [i \in 1..Len(games) |-> [games[i] EXCEPT !.GameID = Decimal(i)]]

NoChecklist == << >>

Day(d) == D(<<2, 0, 2, 4, 0, 1>>) \o D(d)

\* the page before computeGameMilestones runs (line 408: gameMilestones = {})
Loaded(data) ==
    /\ DATA = data
    /\ pc = "start"
    /\ allGames = << >>
    /\ index = 0
    /\ fn = Undefined
    /\ gameMilestones = EmptyMap
    /\ badgeTrackingData = Undefined
    /\ run = 1
    /\ firstOut = Undefined

(* Spec: two teams, two arenas, three consecutive days                     *)

MaxGames == 3

ScenarioChecklist ==
    << [confName |-> "Alpha", totalTeams |-> 1, teams |-> <<[team |-> "TeamX", name |-> ""]>>],
       [confName |-> "Beta",  totalTeams |-> 2, teams |-> <<[team |-> "TeamY", name |-> ""]>>] >>

\* TeamX at TeamY is 70-60 (80-75 on the third day), TeamY at TeamX is 55-65
ScenarioGame(d, away, v) ==
    [NoGame EXCEPT !.DateSort = Day(d), !.Venue = v,
                   !.AwayTeam = away,
                   !.HomeTeam = IF away = "TeamX" THEN "TeamY" ELSE "TeamX",
                   !.AwayScore = IF away = "TeamY" THEN 55
                                 ELSE IF d = <<0, 3>> THEN 80 ELSE 70,
                   !.HomeScore = IF away = "TeamY" THEN 65
                                 ELSE IF d = <<0, 3>> THEN 75 ELSE 60]

ScenarioGames ==
    { ScenarioGame(d, away, v) : d \in {<<0, 1>>, <<0, 2>>, <<0, 3>>},
                                 away \in {"TeamX", "TeamY"},
                                 v \in {"Arena1", "Arena2"} }

\* one appearance per game: the same player on the away team's roster
AwayAppearances(games) ==
    [i \in 1..Len(games) |->
        [ game_id |-> games[i].GameID, player_id |-> "p1", player |-> "Ann Lee",
          team |-> games[i].AwayTeam, realgm_previous_schools |-> << >>,
          date_yyyymmdd |-> games[i].DateSort ]]

ScenarioData(games) ==
    [ games |-> games, playerGames |-> AwayAppearances(games),
      conferenceChecklist |-> ScenarioChecklist, teamAliases |-> EmptyMap, teams |-> << >> ]

Init ==
    /\ \E gs \in SeqsUpTo(ScenarioGames, MaxGames) : Loaded(ScenarioData(WithIds(gs)))
    /\ sortImpl = "timsort"
    /\ now = D(<<2, 0, 2, 4, 0, 1, 0, 1>>)

Spec == Init /\ [][Next]_vars

(* SpecSort: games that differ in the sort keys only                       *)

MaxSortGames == 3

SortKeyGames ==
    { [NoGame EXCEPT !.DateSort = Day(d), !.TimeSort = t, !.Gender = g,
                     !.AwayTeam = "TeamX", !.HomeTeam = "TeamY", !.Venue = "Arena1"]
      : d \in {<<0, 1>>, <<0, 2>>},
        t \in {<< >>, D(<<1, 0, 0, 0>>), D(<<2, 0, 0, 0>>)},
        g \in {"M", "W"} }

InitSort ==
    /\ \E gs \in SeqsUpTo(SortKeyGames, MaxSortGames) :
          Loaded([ games |-> WithIds(gs), playerGames |-> << >>,
                   conferenceChecklist |-> NoChecklist, teamAliases |-> EmptyMap,
                   teams |-> << >> ])
    /\ sortImpl \in SortImpls
    /\ now = D(<<2, 0, 2, 4, 0, 1, 0, 1>>)

SpecSort == InitSort /\ [][Next]_vars


(* SpecReload: the sort-key games, executed twice                          *)

InitReload == InitSort

SpecReload == InitReload /\ [][NextReload]_vars


(* SpecStreak: games that differ in the date only                          *)

MaxStreakGames == 4

\* four consecutive calendar days, across the end of a month
StreakDays ==
    << D(<<2, 0, 2, 4, 0, 1, 3, 0>>), D(<<2, 0, 2, 4, 0, 1, 3, 1>>),
       D(<<2, 0, 2, 4, 0, 2, 0, 1>>), D(<<2, 0, 2, 4, 0, 2, 0, 2>>) >>

\* "2024013x": not a date; it sorts between January 31 and February 1
BadDate == D(<<2, 0, 2, 4, 0, 1, 3>>) \o <<120>>

StreakGames ==
    { [NoGame EXCEPT !.DateSort = d, !.AwayTeam = "TeamX", !.HomeTeam = "TeamY",
                     !.Venue = "Arena1"]
      : d \in SeqToSet(StreakDays) \cup {<< >>, BadDate} }

InitStreak ==
    /\ \E gs \in SeqsUpTo(StreakGames, MaxStreakGames) :
          Loaded([ games |-> WithIds(gs), playerGames |-> << >>,
                   conferenceChecklist |-> NoChecklist, teamAliases |-> EmptyMap,
                   teams |-> << >> ])
    /\ sortImpl = "timsort"
    /\ now = D(<<2, 0, 2, 4, 0, 1, 0, 1>>)

SpecStreak == InitStreak /\ [][Next]_vars


(* SpecTeams: one day, three pairings, streams long enough for a 5th and a *)
(* 6th appearance                                                          *)

MaxTeamGames == 6

TeamGames ==
    { [NoGame EXCEPT !.DateSort = D(<<2, 0, 2, 4, 0, 1, 0, 1>>), !.Gender = t[1],
                     !.AwayTeam = t[2], !.HomeTeam = t[3]]
      : t \in { <<"M", "TeamX", "TeamY">>, <<"W", "TeamX", "TeamY">>,
                <<"", "TeamZ", "TeamX">> } }

InitTeams ==
    /\ \E gs \in SeqsUpTo(TeamGames, MaxTeamGames) :
          Loaded([ games |-> WithIds(gs), playerGames |-> << >>,
                   conferenceChecklist |-> NoChecklist, teamAliases |-> EmptyMap,
                   teams |-> << >> ])
    /\ sortImpl = "timsort"
    /\ now = D(<<2, 0, 2, 4, 0, 1, 0, 1>>)

SpecTeams == InitTeams /\ [][Next]_vars


-----------------------------------------------------------------------------
(* Reading the output                                                      *)

\* the badge list that gm holds for the i-th game of the sorted array
BadgesIn(gm, i) == gm[GameIdOf(allGames[i], i - 1)].badges

\* the badge list of the i-th processed game (1 <= i <= index)
BadgesAt(i) == BadgesIn(gameMilestones, i)

\* the badges of one type in a list, in list order
OfType(badges, type) == SelectSeq(badges, LAMBDA b : b.type = type)

GendersOf(g) == IF g.Gender # "" THEN g.Gender ELSE "M"

-----------------------------------------------------------------------------
(* C9: the three-game scenario                                             *)

EndToEndGames ==
    WithIds(<< ScenarioGame(<<0, 1>>, "TeamX", "Arena1"),
               ScenarioGame(<<0, 2>>, "TeamY", "Arena2"),
               ScenarioGame(<<0, 3>>, "TeamX", "Arena1") >>)

EndToEndDone == pc = "done" /\ DATA.games = EndToEndGames

\* what the scenario says of game 1, and of games 2 and 3 apart from the venue badges
EndToEndCommon ==
    /\ OfType(BadgesAt(1), "new-team") =
          << Badge("new-team", <<"TeamX">>, 0, FALSE), Badge("new-team", <<"TeamY">>, 0, FALSE) >>
    /\ OfType(BadgesAt(1), "new-matchup") =
          << Badge("new-matchup", <<"TeamX", "TeamY">>, 0, FALSE) >>
    /\ OfType(BadgesAt(1), "venue-count") = << Badge("venue-count", <<"Arena1">>, 1, FALSE) >>
    /\ OfType(BadgesAt(2), "new-team") = << >>
    /\ OfType(BadgesAt(2), "streak") = << Badge("streak", << >>, 2, FALSE) >>
    /\ OfType(BadgesAt(3), "streak") = << Badge("streak", << >>, 3, FALSE) >>
    /\ OfType(BadgesAt(3), "new-matchup") = << >>

\* C9 as stated: game 1 emits new-team twice, new-matchup and venue-count(#1);
\* game 2 emits no new-team, venue-count(#2) and streak(2); game 3 emits
\* venue-visit(Arena1 #2), streak(3) and no new-matchup.
C9_AsStated ==
    EndToEndDone =>
        /\ EndToEndCommon
        /\ OfType(BadgesAt(2), "venue-count") = << Badge("venue-count", <<"Arena2">>, 2, FALSE) >>
        /\ OfType(BadgesAt(3), "venue-visit") = << Badge("venue-visit", <<"Arena1">>, 2, FALSE) >>

\* C9 amended: as C9, except that game 2 carries no venue-count badge (Arena2
\* is the 2nd venue and 2 is not a milestone count) and game 3 carries no
\* venue-visit badge (a 2nd visit is not a milestone count).
C9_EndToEnd ==
    EndToEndDone =>
        /\ EndToEndCommon
        /\ OfType(BadgesAt(2), "venue-count") = << >>
        /\ OfType(BadgesAt(3), "venue-visit") = << >>
        /\ badgeTrackingData.venueOrder = <<"Arena1", "Arena2">>
        /\ fn.venueCounts["Arena1"] = 2

C9_Witness == EndToEndDone /\ Len(BadgesAt(3)) = 1

-----------------------------------------------------------------------------
(* The pass as a function of the input array, for comparing inputs         *)

RECURSIVE PassFrom(_, _, _)
\* the rest of the pass from game i + 1 on; next is the state after that game
PassFrom(c, games, i) ==
    IF i >= Len(games) \/ c.thrown THEN c
    ELSE CHOOSE out \in { PassFrom(next, games, i + 1) :
                            next \in {PerGame(c, games[i + 1], i)} } : TRUE

\* what the page publishes: gameMilestones and window.badgeTrackingData
Output(gm, summary) == [gameMilestones |-> gm, badgeTrackingData |-> summary]

\* the output of computeGameMilestones when DATA.games is games
OutputOn(games) ==
    LET c == PassFrom([fn |-> InitLocals, gm |-> EmptyMap, thrown |-> FALSE],
                      SortGames(games, sortImpl), 0)
    IN  Output(c.gm, IF c.thrown THEN Undefined ELSE Summary(FinalizeStreak(c.fn)))

\* every reordering of an array
Reorderings(arr) ==
    { [i \in 1..Len(arr) |-> arr[f[i]]] : f \in Permutations(1..Len(arr)) }

-----------------------------------------------------------------------------
(* C2: the output does not depend on the order of the input array          *)

\* C2 as stated: for games with unique gameIds, some with and some without
\* timeSort, every permutation of the input array gives the same processed
\* order, the same badge list per game and the same summary.
C2_AsStated ==
    pc = "done" =>
        \A games \in Reorderings(DATA.games) :
            /\ SortGames(games, sortImpl) = allGames
            /\ OutputOn(games) = Output(gameMilestones, badgeTrackingData)

-----------------------------------------------------------------------------
(* C3: the processed order follows the four-key chain                      *)

TimesDecide(g1, g2) ==
    g1.TimeSort # << >> /\ g2.TimeSort # << >> /\ g1.TimeSort # g2.TimeSort

\* g1 comes before g2 by the chain dateSort, timeSort, gender (W first), gameId
ChainBefore(g1, g2) ==
    \/ StrLess(g1.DateSort, g2.DateSort)
    \/ /\ g1.DateSort = g2.DateSort
       /\ \/ TimesDecide(g1, g2) /\ StrLess(g1.TimeSort, g2.TimeSort)
          \/ /\ ~TimesDecide(g1, g2)
             /\ \/ GendersOf(g1) = "W" /\ GendersOf(g2) = "M"
                \/ GendersOf(g1) = GendersOf(g2) /\ StrLess(g1.GameID, g2.GameID)

\* C3 as stated: for every pair of games, g1 is processed before g2 whenever
\* the chain puts g1 first; in particular dateSort is non-decreasing.
C3_AsStated ==
    pc # "start" =>
        \A i, j \in 1..Len(allGames) :
            ChainBefore(allGames[i], allGames[j]) => i < j

-----------------------------------------------------------------------------
(* C1: determinism                                                         *)

-----------------------------------------------------------------------------
(* C6: streak arithmetic                                                   *)

IsCalendarDay(date) == date \in SeqToSet(StreakDays)

\* the position of a day in the calendar
DayIndex(date) == CHOOSE k \in 1..Len(StreakDays) : StreakDays[k] = date

\* the streak badges of a list: the numbers shown
StreakShown(badges) ==
    LET st == OfType(badges, "streak") IN [k \in 1..Len(st) |-> st[k].n]

\* the step that processes game index+1, a dated game that follows a dated game
C6_Step ==
    (pc = "loop" /\ index' = index + 1) =>
        /\ (index >= 1 /\ IsCalendarDay(allGames[index].DateSort)
                       /\ IsCalendarDay(allGames[index + 1].DateSort)) =>
              LET gap == DayIndex(allGames[index + 1].DateSort)
                           - DayIndex(allGames[index].DateSort)
              IN  /\ gap = 0 => fn'.currentStreak = fn.currentStreak
                  /\ gap = 1 => fn'.currentStreak = fn.currentStreak + 1
                  /\ gap > 1 => fn'.currentStreak = 1
                  /\ gap >= 0
        /\ StreakShown(BadgesIn(gameMilestones', index')) =
              IF fn'.currentStreak >= 2 THEN <<fn'.currentStreak>> ELSE << >>
        /\ OfType(BadgesIn(gameMilestones', index'), "streak") \in
              {<< >>, <<Badge("streak", << >>, fn'.currentStreak, FALSE)>>}

DatesOf(games) == [i \in 1..Len(games) |-> games[i].DateSort]

\* games on days D, D+1, D+1, D+3
C6_FourGames ==
    pc = "done" /\ DatesOf(allGames) = <<StreakDays[1], StreakDays[2], StreakDays[2], StreakDays[4]>>

C6_Scenario ==
    C6_FourGames =>
        [i \in 1..4 |-> StreakShown(BadgesAt(i))] = << << >>, <<2>>, <<2>>, << >> >>

\* C6: when a dated game follows a dated game, currentStreak is unchanged on
\* the same calendar day, incremented by 1 when the gap is one day and reset
\* to 1 when the gap is more than one day; a game carries a streak badge iff
\* currentStreak >= 2 after the update, and the badge shows that value; games
\* on days D, D+1, D+1, D+3 carry the streak badges none, 2, 2, none.
C6_StreakArithmetic == [][C6_Step]_vars /\ [](C6_Scenario)

C6_Witness == C6_FourGames /\ fn.streakHistory = <<2>> /\ fn.maxStreak = 2

-----------------------------------------------------------------------------
(* C8: team-visit milestones                                               *)

\* the counts at which C8 puts a team-visit badge
C8_Counts == {5, 10, 15, 20, 25, 30, 35, 40, 45, 50, 75, 100, 150, 200}

\* appearances of (team, gender), as away or home team, in the first k games
Appearances(team, gender, k) ==
    Cardinality({j \in 1..k : GendersOf(allGames[j]) = gender /\ allGames[j].AwayTeam = team})
  + Cardinality({j \in 1..k : GendersOf(allGames[j]) = gender /\ allGames[j].HomeTeam = team})

\* the badge of the n-th appearance of (team, gender), if it has one
C8_VisitBadge(team, gender, n) ==
    IF team # "" /\ n > 1 /\ n \in C8_Counts
    THEN <<Badge("team-visit", <<team>>, n, gender = "W")>>
    ELSE << >>

\* the team-visit badges that C8 gives the i-th game: away side, then home side
C8_Expected(i) ==
    LET g == allGames[i]
        gender == GendersOf(g)
        before(team) == Appearances(team, gender, i - 1)
    IN  C8_VisitBadge(g.AwayTeam, gender, before(g.AwayTeam) + 1)
        \o C8_VisitBadge(g.HomeTeam, gender,
                         before(g.HomeTeam) + (IF g.AwayTeam = g.HomeTeam THEN 2 ELSE 1))

\* C8: the n-th appearance of a (team, gender) pair carries a team-visit badge
\* iff n > 1 and n is in {5,10,...,50,75,100,150,200}, and the badge shows n;
\* the same team name under the other gender is counted separately.
C8_TeamVisit ==
    pc # "start" =>
        \A i \in 1..index : OfType(BadgesAt(i), "team-visit") = C8_Expected(i)

\* TeamX (men) has appeared 5 times and TeamX (women) once: the men's 5th
\* appearance carries the badge, the 4th carries none
C8_Witness ==
    /\ pc = "done" /\ Len(allGames) = 6
    /\ GendersOf(allGames[1]) = "W" /\ allGames[1].AwayTeam = "TeamX"
    /\ fn.teamCounts[<<"TeamX", "M">>] = 5
    /\ OfType(BadgesAt(6), "team-visit")[1] = Badge("team-visit", <<"TeamX">>, 5, FALSE)
    /\ OfType(BadgesAt(5), "team-visit") = << >>

-----------------------------------------------------------------------------
(* SpecBadges: five teams in three conferences, two arenas, two states,    *)
(* three days, both genders and a lower division; one player on every away *)
(* roster                                                                  *)

MaxBadgeGames == 5

BadgeChecklist ==
    << [confName |-> "Alpha", totalTeams |-> 2,
        teams |-> <<[team |-> "TeamX", name |-> ""], [team |-> "TeamZ", name |-> ""]>>],
       [confName |-> "Beta", totalTeams |-> 1,
        teams |-> <<[team |-> "TeamY", name |-> ""]>>],
       [confName |-> "Gamma", totalTeams |-> 2,
        teams |-> <<[team |-> "TeamV", name |-> ""], [team |-> "TeamW", name |-> ""]>>] >>

\* t = <<day, gender, division, away, home, venue, state>>; the away team wins
BadgeGame(t) ==
    [NoGame EXCEPT !.DateSort = Day(t[1]), !.Gender = t[2], !.Division = t[3],
                   !.AwayTeam = t[4], !.HomeTeam = t[5], !.Venue = t[6], !.State = t[7],
                   !.AwayScore = 70, !.HomeScore = 60]

BadgeGames ==
    { BadgeGame(t) :
        t \in { <<<<0, 1>>, "M", "D1", "TeamX", "TeamY", "Arena1", "CA">>,
                <<<<0, 2>>, "",  "",   "TeamY", "TeamX", "Arena1", "CA">>,
                <<<<0, 3>>, "M", "D1", "TeamZ", "TeamX", "Arena1", "CA">>,
                <<<<0, 3>>, "M", "D2", "TeamV", "TeamW", "Arena2", "NY">>,
                <<<<0, 2>>, "W", "D1", "TeamX", "TeamY", "Arena2", "NY">> } }

BadgeData(games) ==
    [ games |-> games, playerGames |-> AwayAppearances(games),
      conferenceChecklist |-> BadgeChecklist, teamAliases |-> EmptyMap, teams |-> << >> ]

InitBadges ==
    /\ \E gs \in SeqsUpTo(BadgeGames, MaxBadgeGames) : Loaded(BadgeData(WithIds(gs)))
    /\ sortImpl = "timsort"
    /\ now = D(<<2, 0, 2, 4, 0, 1, 0, 1>>)

SpecBadges == InitBadges /\ [][Next]_vars

-----------------------------------------------------------------------------
(* C4: a "new" badge at most once per key                                  *)

\* the positions <<i, j>> of all badges emitted so far: badge j of game i
Emitted == UNION { {<<i, j>> : j \in 1..Len(BadgesAt(i))} : i \in 1..index }

BadgeOf(p) == BadgesAt(p[1])[p[2]]

NewTypes == {"new-team", "new-state", "venue-count", "new-matchup", "new-conf", "conf-matchup"}

\* what a "new" badge is about: the team and gender, the state, the venue, the
\* unordered pair and gender, the conference, the unordered conference pair
NewKey(p) ==
    LET b == BadgeOf(p)
        g == GendersOf(allGames[p[1]])
    IN  CASE b.type = "new-team"     -> <<b.who[1], g>>
          [] b.type = "new-matchup"  -> <<{b.who[1], b.who[2]}, g>>
          [] b.type = "conf-matchup" -> {b.who[1], b.who[2]}
          [] OTHER                   -> b.who[1]

\* C4: over the whole stream, no two badges of the same "new" type (new-team,
\* new-state, venue-count, new-matchup, new-conf, conf-matchup) have the same
\* key: (team, gender), state, venue, (unordered team pair, gender),
\* conference, unordered conference pair
C4_NewOncePerKey ==
    \A p \in Emitted : \A q \in Emitted :
        ( /\ BadgeOf(p).type \in NewTypes
          /\ BadgeOf(q).type = BadgeOf(p).type
          /\ NewKey(q) = NewKey(p) ) => q = p

\* the pairing of game 1 is played again, the other way round, in game 2:
\* every one of the six keys occurs twice, and game 1 holds all six badges
C4_Witness ==
    /\ pc = "done"
    /\ Len(allGames) >= 2
    /\ allGames[2].AwayTeam = allGames[1].HomeTeam
    /\ allGames[2].HomeTeam = allGames[1].AwayTeam
    /\ GendersOf(allGames[2]) = GendersOf(allGames[1])
    /\ allGames[2].Venue = allGames[1].Venue
    /\ allGames[2].State = allGames[1].State
    /\ NewTypes \subseteq {BadgesAt(1)[j].type : j \in 1..Len(BadgesAt(1))}
    /\ NewTypes \cap {BadgesAt(2)[j].type : j \in 1..Len(BadgesAt(2))} = {}

-----------------------------------------------------------------------------
(* C5: the running counts                                                  *)

\* one step of the pass: a processed game adds exactly 1 to gameCount and 0 or
\* 1 to d1GameCount, and no step of the pass lowers either
C5_Step ==
    pc = "loop" =>
        /\ fn'.gameCount >= fn.gameCount
        /\ fn'.d1GameCount >= fn.d1GameCount
        /\ index' = index + 1 =>
              /\ fn'.gameCount = fn.gameCount + 1
              /\ fn'.d1GameCount - fn.d1GameCount \in {0, 1}

C5_Bound == pc \in {"loop", "done"} => fn.d1GameCount <= fn.gameCount

\* C5: after the i-th game the game count is the count after game i-1 plus
\* exactly 1 and the D1 count is its previous value plus 0 or 1; neither ever
\* decreases, and the D1 count never exceeds the game count
C5_MonotonicCounts == [][C5_Step]_vars /\ [](C5_Bound)

\* a D1 game, then a game of another division, then a D1 game again
C5_Witness ==
    /\ pc = "done"
    /\ Len(allGames) >= 3
    /\ allGames[1].Division = "D1"
    /\ allGames[2].Division = "D2"
    /\ allGames[3].Division = "D1"
    /\ fn.gameCount = Len(allGames)
    /\ fn.d1GameCount = Cardinality({i \in 1..Len(allGames) : allGames[i].Division \in {"", "D1"}})

-----------------------------------------------------------------------------
(* C10: the order of the badges of one game                                *)

TeamTypes == {"new-team", "d1-team", "team-visit"}

ConfTypes == {"new-conf", "conf-complete"}

Rank(type) ==
    CASE type = "game-count"   -> 1
      [] type = "d1-game"      -> 2
      [] type = "streak"       -> 3
      [] type = "new-state"    -> 4
      [] type = "venue-count"  -> 5
      [] type = "venue-visit"  -> 6
      [] type \in TeamTypes    -> 7
      [] type \in ConfTypes    -> 8
      [] type = "new-matchup"  -> 9
      [] type = "conf-matchup" -> 10
      [] type = "transfer"     -> 11

\* the sides of the game that a named team or conference badge can belong to
NamedSides(game, b) ==
    IF b.type \in ConfTypes
    THEN {side \in {"away", "home"} : getGameConference(game, side) = b.who[1]}
    ELSE {side \in {"away", "home"} :
            b.who[1] = (IF side = "away" THEN game.AwayTeam ELSE game.HomeTeam)}

\* a d1-team badge names no team: it belongs to the new-team badge before it
Sides(game, badges, j) ==
    IF badges[j].type \in {"new-team", "team-visit"} \cup ConfTypes
    THEN NamedSides(game, badges[j])
    ELSE IF badges[j].type = "d1-team" /\ j > 1 /\ badges[j - 1].type = "new-team"
    THEN NamedSides(game, badges[j - 1])
    ELSE {}

InRuleOrder(game, badges) ==
    \A j \in 1..Len(badges) : \A k \in (j + 1)..Len(badges) :
        /\ Rank(badges[j].type) <= Rank(badges[k].type)
        /\ Rank(badges[j].type) = Rank(badges[k].type) =>
              ~(Sides(game, badges, j) = {"home"} /\ Sides(game, badges, k) = {"away"})

\* C10: in every game's badge list, a badge never comes after a badge of a
\* higher rank (game-count < d1-game < streak < new-state < venue-count <
\* venue-visit < team badges < conference badges < new-matchup < conf-matchup
\* < transfer), and among the team badges and among the conference badges the
\* away side's come before the home side's
C10_BadgeOrder == \A i \in 1..index : InRuleOrder(allGames[i], BadgesAt(i))

\* all eleven ranks occur in the lists of the stream, the first game has team
\* and conference badges of both sides, and a fifth visit is among the badges
C10_Witness ==
    /\ pc = "done"
    /\ {Rank(BadgeOf(p).type) : p \in Emitted} = 1..11
    /\ \E p \in Emitted : BadgeOf(p).type = "team-visit"
    /\ \A t \in {"new-team", "new-conf"} :
          {Sides(allGames[1], BadgesAt(1), j) :
              j \in {k \in 1..Len(BadgesAt(1)) : BadgesAt(1)[k].type = t}}
          = {{"away"}, {"home"}}

-----------------------------------------------------------------------------
(* SpecConf: a conference of three teams, an opponent outside every        *)
(* conference, and a record whose away team name is missing                *)

MaxConfGames == 4

ConfChecklist ==
    << [confName |-> "Alpha", totalTeams |-> 3,
        teams |-> <<[team |-> "TeamA", name |-> ""], [team |-> "TeamB", name |-> ""],
                    [team |-> "TeamC", name |-> ""]>>] >>

\* t = <<gender, away, home, AwayConf>>, all on one day
ConfGames ==
    { [NoGame EXCEPT !.DateSort = Day(<<0, 1>>), !.Gender = t[1], !.AwayTeam = t[2],
                     !.HomeTeam = t[3], !.AwayConf = t[4]]
      : t \in { <<"M", "TeamA", "TeamQ", "">>,
                <<"M", "TeamQ", "TeamB", "">>,
                <<"M", "TeamC", "TeamA", "">>,
                <<"W", "TeamA", "TeamQ", "">>,
                <<"M", "",      "TeamQ", "Alpha">> } }

InitConf ==
    /\ \E gs \in SeqsUpTo(ConfGames, MaxConfGames) :
          Loaded([ games |-> WithIds(gs), playerGames |-> << >>,
                   conferenceChecklist |-> ConfChecklist, teamAliases |-> EmptyMap,
                   teams |-> << >> ])
    /\ sortImpl = "timsort"
    /\ now = D(<<2, 0, 2, 4, 0, 1, 0, 1>>)

SpecConf == InitConf /\ [][Next]_vars

-----------------------------------------------------------------------------
(* C7: completion of a conference                                          *)

\* the teams of conference conf that game shows
TeamsOfConfIn(game, conf) ==
    {t \in {game.AwayTeam, game.HomeTeam} :
        /\ t # ""
        /\ \/ t = game.AwayTeam /\ getGameConference(game, "away") = conf
           \/ t = game.HomeTeam /\ getGameConference(game, "home") = conf}

\* the distinct teams of conf seen under gender in the first i games
TeamsSeenBy(conf, gender, i) ==
    UNION { TeamsOfConfIn(allGames[k], conf) :
              k \in {j \in 1..i : GendersOf(allGames[j]) = gender} }

CompleteBadges(i, conf) ==
    SelectSeq(BadgesAt(i), LAMBDA b : b.type = "conf-complete" /\ b.who[1] = conf)

\* C7 as stated: for a conference of n > 0 teams, game i holds one
\* conf-complete badge for it if the number of distinct teams seen for
\* (conference, gender of game i) reaches n in game i, and none otherwise
C7_AsStated ==
    \A i \in 1..index : \A e \in SeqToSet(DATA.conferenceChecklist) :
        e.totalTeams > 0 =>
            Len(CompleteBadges(i, e.confName)) =
                IF /\ Cardinality(TeamsSeenBy(e.confName, GendersOf(allGames[i]), i))
                        >= e.totalTeams
                   /\ Cardinality(TeamsSeenBy(e.confName, GendersOf(allGames[i]), i - 1))
                        < e.totalTeams
                THEN 1 ELSE 0

-----------------------------------------------------------------------------
(* SpecMissing: records with fields left out, and one record whose gender  *)
(* is neither M nor W                                                      *)

MaxMissingGames == 3

\* t = <<date, gender, away, home, venue, state>>
MissingGame(t) ==
    [NoGame EXCEPT !.DateSort = t[1], !.Gender = t[2], !.AwayTeam = t[3],
                   !.HomeTeam = t[4], !.Venue = t[5], !.State = t[6]]

MissingGames ==
    { MissingGame(t) :
        t \in { <<Day(<<0, 1>>), "M", "TeamX", "TeamY", "Arena1", "CA">>,
                <<Day(<<0, 2>>), "W", "",      "TeamY", "Arena1", "CA">>,
                <<Day(<<0, 2>>), "",  "TeamX", "",      "",       "CA">>,
                <<<< >>,         "M", "TeamQ", "TeamX", "Arena1", "">>,
                <<Day(<<0, 3>>), "M", "TeamQ", "TeamR", "",       "">>,
                <<<< >>,         "",  "",      "",      "",       "">>,
                <<Day(<<0, 3>>), "X", "TeamX", "TeamY", "Arena1", "CA">> } }

InitMissing ==
    /\ \E gs \in SeqsUpTo(MissingGames, MaxMissingGames) :
          Loaded(ScenarioData(WithIds(gs)))
    /\ sortImpl = "timsort"
    /\ now = D(<<2, 0, 2, 4, 0, 1, 0, 1>>)

\* the pass is one synchronous call: once the loop has started, the next
\* iteration or the code after the loop is always executed
SpecMissing == InitMissing /\ [][Next]_vars /\ WF_vars(ProcessGame \/ Finalize)

-----------------------------------------------------------------------------
(* C11: missing fields never abort the pass                                *)

\* every game is a men's or a women's game, or says nothing of the gender
GendersKnown == \A k \in 1..Len(DATA.games) : DATA.games[k].Gender \in {"M", "W", ""}

TypesAt(i) == {BadgesAt(i)[j].type : j \in 1..Len(BadgesAt(i))}

\* the badges of the i-th game come from rules whose fields the game has
OnlyFromFieldsPresent(i) ==
    LET g == allGames[i]
        awayConf == getGameConference(g, "away")
        homeConf == getGameConference(g, "home")
    IN  /\ \A j \in 1..Len(BadgesAt(i)) :
              BadgesAt(i)[j].type \in {"new-team", "team-visit"} => BadgesAt(i)[j].who[1] # ""
        /\ (g.AwayTeam = "" /\ g.HomeTeam = "") => TypesAt(i) \cap TeamTypes = {}
        /\ g.Venue = "" => TypesAt(i) \cap {"venue-count", "venue-visit"} = {}
        /\ g.State = "" => "new-state" \notin TypesAt(i)
        /\ g.DateSort = << >> => "streak" \notin TypesAt(i)
        /\ (g.AwayTeam = "" \/ g.HomeTeam = "") => "new-matchup" \notin TypesAt(i)
        /\ (awayConf = "" /\ homeConf = "") => TypesAt(i) \cap ConfTypes = {}
        /\ (awayConf = "" \/ homeConf = "") => "conf-matchup" \notin TypesAt(i)

C11_Safe ==
    GendersKnown =>
        /\ pc # "thrown"
        /\ \A i \in 1..index :
              /\ Has(gameMilestones, GameIdOf(allGames[i], i - 1))
              /\ OnlyFromFieldsPresent(i)
        /\ pc = "done" => index = Len(DATA.games)

\* C11: when every game's gender is M, W or absent, whatever other fields
\* are empty, the pass never raises and, once started, reaches its end, every
\* game has a badge-list entry, and no game has a badge of a rule whose field
\* is empty (team name, venue, state, date, both team names for the matchup,
\* the conference)
C11_NeverAborts == [](C11_Safe) /\ ((GendersKnown /\ pc = "loop") ~> pc = "done")

\* three games done: one without any field, one without an away team, and
\* one that has badges
C11_Witness ==
    /\ pc = "done"
    /\ GendersKnown
    /\ index = 3
    /\ \E i \in 1..3 : allGames[i].HomeTeam = "" /\ allGames[i].AwayTeam = ""
                        /\ allGames[i].DateSort = << >>
    /\ \E i \in 1..3 : allGames[i].AwayTeam = "" /\ "new-team" \in TypesAt(i)
    /\ \E i \in 1..3 : "new-matchup" \in TypesAt(i)

-----------------------------------------------------------------------------
(* SpecSentinel: a checklist that has the two aggregate entries, a team    *)
(* listed only under each of them, and records that name them explicitly   *)

MaxSentinelGames == 3

SentinelChecklist ==
    << [confName |-> "Alpha", totalTeams |-> 1,
        teams |-> <<[team |-> "TeamX", name |-> ""]>>],
       [confName |-> "All D1", totalTeams |-> 2,
        teams |-> <<[team |-> "TeamX", name |-> ""], [team |-> "TeamY", name |-> ""]>>],
       [confName |-> "Historical/Other", totalTeams |-> 1,
        teams |-> <<[team |-> "TeamH", name |-> ""]>>] >>

\* t = <<away, home, AwayConf, HomeConf>>, all on one day
SentinelGames ==
    { [NoGame EXCEPT !.DateSort = Day(<<0, 1>>), !.AwayTeam = t[1], !.HomeTeam = t[2],
                     !.AwayConf = t[3], !.HomeConf = t[4]]
      : t \in { <<"TeamX", "TeamY", "", "">>,
                <<"TeamH", "TeamX", "", "">>,
                <<"TeamX", "TeamQ", "", "All D1">>,
                <<"TeamQ", "TeamX", "Historical/Other", "">> } }

InitSentinel ==
    /\ \E gs \in SeqsUpTo(SentinelGames, MaxSentinelGames) :
          Loaded([ games |-> WithIds(gs), playerGames |-> << >>,
                   conferenceChecklist |-> SentinelChecklist, teamAliases |-> EmptyMap,
                   teams |-> << >> ])
    /\ sortImpl = "timsort"
    /\ now = D(<<2, 0, 2, 4, 0, 1, 0, 1>>)

SpecSentinel == InitSentinel /\ [][Next]_vars

-----------------------------------------------------------------------------
(* C12: the two sentinel conferences                                       *)

\* C12 as stated: no new-conf, conf-complete or conf-matchup badge names
\* 'All D1' or 'Historical/Other', and neither name has an entry in the
\* conference seen-sets, the conference team counter or the conference
\* matchup counter
C12_AsStated ==
    /\ \A p \in Emitted :
          BadgeOf(p).type \in ConfTypes \cup {"conf-matchup"} =>
              SeqToSet(BadgeOf(p).who) \cap SkippedConfs = {}
    /\ pc \in {"loop", "done"} =>
          /\ \A k \in DOMAIN fn.confTeamsSeen : k[1] \notin SkippedConfs
          /\ DOMAIN fn.confTeamCounts \cap SkippedConfs = {}
          /\ \A k \in DOMAIN fn.confMatchupCounts : k \cap SkippedConfs = {}

-----------------------------------------------------------------------------
(* SpecPrefix: the pass on a stream, then on a prefix of the sorted stream *)
(* One player has one appearance record per game; a record carries its own *)
(* date, which may be missing.                                             *)

MaxPrefixGames == 3

\* t = <<day, away, home, the player's team, previous schools, whether the
\* record has its date>>
PrefixTemplates ==
    { <<<<0, 1>>, "TeamX", "TeamY", "TeamX", << >>,        TRUE>>,
      <<<<0, 2>>, "TeamZ", "TeamY", "TeamY", <<"TeamZ">>,  TRUE>>,
      <<<<0, 3>>, "TeamZ", "TeamY", "TeamZ", << >>,        TRUE>>,
      <<<<0, 3>>, "TeamZ", "TeamX", "TeamZ", << >>,        FALSE>> }

PrefixData(ts) ==
    [ games |->
        [i \in 1..Len(ts) |->
            [NoGame EXCEPT !.GameID = Decimal(i), !.DateSort = Day(ts[i][1]),
                           !.AwayTeam = ts[i][2], !.HomeTeam = ts[i][3]]],
      playerGames |->
        [i \in 1..Len(ts) |->
            [ game_id |-> Decimal(i), player_id |-> "p1", player |-> "Ann Lee",
              team |-> ts[i][4], realgm_previous_schools |-> ts[i][5],
              date_yyyymmdd |-> IF ts[i][6] THEN Day(ts[i][1]) ELSE << >> ]],
      conferenceChecklist |-> NoChecklist, teamAliases |-> EmptyMap, teams |-> << >> ]

InitPrefix ==
    /\ \E ts \in SeqsUpTo(PrefixTemplates, MaxPrefixGames) : Loaded(PrefixData(ts))
    /\ sortImpl = "timsort"
    /\ now = D(<<2, 0, 2, 4, 0, 1, 0, 1>>)

\* DATA without the games after position i of the sorted stream and without
\* the appearance records of those games
UpTo(i) ==
    LET removed == {allGames[k].GameID : k \in (i + 1)..Len(allGames)}
    IN  [DATA EXCEPT !.games = SelectSeq(@, LAMBDA g : g.GameID \notin removed),
                     !.playerGames = SelectSeq(@, LAMBDA pg : pg.game_id \notin removed)]

\* a second, independent execution, on a prefix of the stream of the first
RunOnPrefix ==
    /\ pc = "done"
    /\ run = 1
    /\ \E i \in 0..(Len(allGames) - 1) : DATA' = UpTo(i)
    /\ run' = run + 1
    /\ firstOut' = [gameMilestones |-> gameMilestones, badgeTrackingData |-> badgeTrackingData]
    /\ pc' = "start"
    /\ allGames' = << >>
    /\ index' = 0
    /\ fn' = Undefined
    /\ gameMilestones' = EmptyMap
    /\ badgeTrackingData' = Undefined
    /\ UNCHANGED <<sortImpl, now>>

NextPrefix == Next \/ RunOnPrefix

SpecPrefix == InitPrefix /\ [][NextPrefix]_vars

-----------------------------------------------------------------------------
(* C13: no look-ahead                                                      *)

\* C13 as stated: with every game after position i removed together with its
\* appearance records, games 1..i are processed in the same order and get
\* the same badge lists as in the pass on the whole stream
C13_AsStated ==
    run = 2 =>
        \A k \in 1..index :
            /\ firstOut.gameMilestones[allGames[k].GameID].gameNumber = k
            /\ firstOut.gameMilestones[allGames[k].GameID].badges = BadgesAt(k)

-----------------------------------------------------------------------------
(* SpecAgain: computeGameMilestones called a second time on the same page, *)
(* after DATA has been left alone or replaced                              *)

MaxAgainGames == 2

AgainGames ==
    { MissingGame(t) :
        t \in { <<Day(<<0, 1>>), "M", "TeamX", "TeamY", "Arena1", "CA">>,
                <<Day(<<0, 2>>), "W", "TeamY", "TeamX", "Arena2", "NY">>,
                <<Day(<<0, 2>>), "M", "TeamX", "TeamY", "Arena1", "CA">>,
                <<Day(<<0, 3>>), "X", "TeamX", "TeamY", "Arena1", "CA">> } }

AgainInputs == { ScenarioData(WithIds(gs)) : gs \in SeqsUpTo(AgainGames, MaxAgainGames) }

InitAgain ==
    /\ \E d \in AgainInputs : Loaded(d)
    /\ sortImpl = "timsort"
    /\ now = D(<<2, 0, 2, 4, 0, 1, 0, 1>>)

\* the function is global and the call of line 749 catches what it throws:
\* after a call has returned or thrown, the page can call it again; the
\* module variable gameMilestones and window.badgeTrackingData are whatever
\* the earlier call left
RunAgain ==
    /\ pc \in {"done", "thrown"}
    /\ run = 1
    /\ DATA' \in AgainInputs
    /\ run' = run + 1
    /\ firstOut' = [gameMilestones |-> gameMilestones, badgeTrackingData |-> badgeTrackingData]
    /\ pc' = "start"
    /\ allGames' = << >>
    /\ index' = 0
    /\ fn' = Undefined
    /\ UNCHANGED <<sortImpl, now, gameMilestones, badgeTrackingData>>

NextAgain == Next \/ RunAgain

SpecAgain == InitAgain /\ [][NextAgain]_vars

-----------------------------------------------------------------------------
(* C14: a second call in the same process                                  *)

-----------------------------------------------------------------------------
(* SpecOwned: games whose GameID fields are chosen freely                  *)

MaxOwnedGames == 3

OwnedIds == {Decimal(1), Decimal(2), Decimal(3)}

OwnedGames ==
    { [MissingGame(t) EXCEPT !.GameID = id] :
        t \in { <<Day(<<0, 1>>), "M", "TeamX", "TeamY", "Arena1", "CA">>,
                <<Day(<<0, 2>>), "M", "TeamY", "TeamX", "Arena2", "NY">> },
        id \in OwnedIds }

InitOwned ==
    /\ \E gs \in SeqsUpTo(OwnedGames, MaxOwnedGames) : Loaded(ScenarioData(gs))
    /\ sortImpl = "timsort"
    /\ now = D(<<2, 0, 2, 4, 0, 1, 0, 1>>)

SpecOwned == InitOwned /\ [][Next]_vars

-----------------------------------------------------------------------------
(* C15: badge lists are owned by their game and only grow                  *)

\* no two games of the stream have the same id
UniqueIds ==
    \A k, l \in 1..Len(allGames) :
        k # l => GameIdOf(allGames[k], k - 1) # GameIdOf(allGames[l], l - 1)

\* the entry of the k-th processed game
EntryAt(gm, k) == gm[GameIdOf(allGames[k], k - 1)]

\* the step that processes game index+1 adds an entry for that game, numbered
\* index+1, and leaves the entries of the games before it as they were
C15_Step ==
    (pc = "loop" /\ index' = index + 1 /\ UniqueIds) =>
        /\ DOMAIN gameMilestones' =
              DOMAIN gameMilestones \cup {GameIdOf(allGames[index + 1], index)}
        /\ GameIdOf(allGames[index + 1], index) \notin DOMAIN gameMilestones
        /\ \A k \in 1..index : EntryAt(gameMilestones', k) = EntryAt(gameMilestones, k)

\* C15: in a stream with unique gameIds, processing game j writes only the
\* badge list of game j; the badge list and the gameNumber of every game
\* processed before j stay as they are, and the gameNumber of each game is
\* its 1-based position in the processed stream
C15_OwnedAppendOnly ==
    /\ [][C15_Step]_vars
    /\ [](UniqueIds => \A k \in 1..index : EntryAt(gameMilestones, k).gameNumber = k)

\* three games with unique ids have been processed and each has badges
C15_Witness ==
    /\ UniqueIds
    /\ index = 3
    /\ \A k \in 1..3 : Len(BadgesAt(k)) > 0

-----------------------------------------------------------------------------
(* SpecCount: a history of D1 games on one day, then a few games of any    *)
(* division on the next day                                                *)

MaxCountGames == 3

\* the lengths of the history: none, or enough for the counts to pass 10
HistoryLengths == {0, 8}

CountGame(d, division) ==
    [NoGame EXCEPT !.DateSort = Day(d), !.Division = division,
                   !.AwayTeam = "TeamX", !.HomeTeam = "TeamY"]

\* a game of the top division, of another division, and one without the field
CountGames == { CountGame(<<0, 2>>, division) : division \in {"D1", "D2", ""} }

InitCount ==
    /\ \E h \in HistoryLengths, gs \in SeqsUpTo(CountGames, MaxCountGames) :
          Loaded(ScenarioData(WithIds([k \in 1..h |-> CountGame(<<0, 1>>, "D1")] \o gs)))
    /\ sortImpl = "timsort"
    /\ now = D(<<2, 0, 2, 4, 0, 1, 0, 1>>)

SpecCount == InitCount /\ [][Next]_vars

-----------------------------------------------------------------------------
(* C16: the game-count milestone                                           *)

\* C16: the i-th game of the processed stream has a game-count badge iff i
\* is one of 1, 10, 25, 50, 75, 100, 150, 200, 250, 500; it has at most one,
\* and the number it shows is i, which is the gameNumber of the game
C16_GameCount ==
    \A k \in 1..index :
        LET shown == OfType(BadgesAt(k), "game-count")
        IN  /\ Len(shown) = IF k \in {1, 10, 25, 50, 75, 100, 150, 200, 250, 500}
                            THEN 1 ELSE 0
            /\ \A j \in 1..Len(shown) :
                  /\ shown[j].n = k
                  /\ shown[j].n = EntryAt(gameMilestones, k).gameNumber

\* eleven games are processed: the tenth has the badge, the games between
\* the first and the tenth and the eleventh have none
C16_Witness ==
    /\ index = 11
    /\ OfType(BadgesAt(10), "game-count") = <<Badge("game-count", << >>, 10, FALSE)>>
    /\ OfType(BadgesAt(11), "game-count") = << >>

-----------------------------------------------------------------------------
(* C17: the count of D1 games                                              *)

\* the games among the first i whose Division is one of divisions
GamesOfDivision(i, divisions) == {k \in 1..i : allGames[k].Division \in divisions}

\* C17 as stated: after the i-th game the D1 count is the number of games
\* among the first i whose Division field equals 'D1'
C17_AsStated ==
    pc = "loop" => fn.d1GameCount = Cardinality(GamesOfDivision(index, {"D1"}))

\* the step on game index+1: a game of another division leaves the count
\* and gets no d1-game badge; a game that is counted gets the badge iff the
\* new count is a milestone, and the badge shows the new count
C17_Step ==
    (pc = "loop" /\ index' = index + 1) =>
        LET shown == OfType(BadgesIn(gameMilestones', index + 1), "d1-game")
        IN  IF allGames[index + 1].Division \in {"D1", ""}
            THEN /\ fn'.d1GameCount = fn.d1GameCount + 1
                 /\ shown = IF fn'.d1GameCount \in {1, 10, 25, 50, 75, 100, 150, 200, 250, 500}
                            THEN <<Badge("d1-game", << >>, fn'.d1GameCount, FALSE)>>
                            ELSE << >>
            ELSE /\ fn'.d1GameCount = fn.d1GameCount
                 /\ shown = << >>

\* C17: after the i-th game the D1 count is the number of games among the
\* first i whose Division field is 'D1' or is missing (line 494 reads a
\* missing division as 'D1'); a game of another division leaves the count
\* unchanged and gets no d1-game badge; a d1-game badge is emitted iff the
\* count was incremented on the game and the new value is a milestone
C17_D1Count ==
    /\ [](pc = "loop" => fn.d1GameCount = Cardinality(GamesOfDivision(index, {"D1", ""})))
    /\ [][C17_Step]_vars

\* after eight D1 games, a game of another division, then a game without
\* the field and a D1 game: the tenth D1 game is the eleventh game
C17_Witness ==
    /\ index = 11
    /\ allGames[9].Division = "D2"
    /\ allGames[10].Division = ""
    /\ fn.d1GameCount = 10
    /\ OfType(BadgesAt(11), "d1-game") = <<Badge("d1-game", << >>, 10, FALSE)>>

-----------------------------------------------------------------------------
(* SpecVenue: a history of four games, at one venue or at four, then a few *)
(* games at an old venue, at a new one, or without a venue                 *)

MaxVenueGames == 2

VenueGame(d, venue) ==
    [NoGame EXCEPT !.DateSort = Day(d), !.Venue = venue,
                   !.AwayTeam = "TeamX", !.HomeTeam = "TeamY"]

VenueHistories ==
    { << >>,
      [k \in 1..4 |-> VenueGame(<<0, 1>>, "Arena1")],
      <<VenueGame(<<0, 1>>, "Arena1"), VenueGame(<<0, 1>>, "Arena2"),
        VenueGame(<<0, 1>>, "Arena3"), VenueGame(<<0, 1>>, "Arena4")>> }

VenueGames == { VenueGame(<<0, 2>>, venue) : venue \in {"", "Arena1", "Arena5"} }

InitVenue ==
    /\ \E h \in VenueHistories, gs \in SeqsUpTo(VenueGames, MaxVenueGames) :
          Loaded(ScenarioData(WithIds(h \o gs)))
    /\ sortImpl = "timsort"
    /\ now = D(<<2, 0, 2, 4, 0, 1, 0, 1>>)

SpecVenue == InitVenue /\ [][Next]_vars

-----------------------------------------------------------------------------
(* C18: the venue rules                                                    *)

\* the processed games among the first k at a venue
GamesAt(venue, k) == {j \in 1..k : allGames[j].Venue = venue}

\* the distinct venues of the first k games
VenuesUpTo(k) == {allGames[j].Venue : j \in 1..k} \ {""}

\* C18: a game has a venue-count badge iff its venue is non-empty, no
\* earlier game was at it, and its rank among the distinct venues is in
\* MILESTONE_COUNTS; it has a venue-visit badge iff the number of games at
\* the venue so far is more than 1 and in that set; no game has both; the
\* visit counter of a venue is the number of processed games at it
C18_VenueRules ==
    /\ \A k \in 1..index :
          LET venue  == allGames[k].Venue
              counts == OfType(BadgesAt(k), "venue-count")
              visits == OfType(BadgesAt(k), "venue-visit")
              rank   == Cardinality(VenuesUpTo(k))
              visit  == Cardinality(GamesAt(venue, k))
              set    == {1, 5, 10, 15, 20, 25, 30, 35, 40, 45, 50, 75, 100, 150, 200}
          IN  /\ counts = IF venue # "" /\ GamesAt(venue, k - 1) = {} /\ rank \in set
                          THEN <<Badge("venue-count", <<venue>>, rank, FALSE)>> ELSE << >>
              /\ visits = IF venue # "" /\ visit > 1 /\ visit \in set
                          THEN <<Badge("venue-visit", <<venue>>, visit, FALSE)>> ELSE << >>
              /\ counts = << >> \/ visits = << >>
    /\ pc = "loop" =>
          /\ DOMAIN fn.venueCounts = VenuesUpTo(index)
          /\ \A venue \in VenuesUpTo(index) :
                fn.venueCounts[venue] = Cardinality(GamesAt(venue, index))

\* the fifth game at a venue shows visit 5 and no venue-count; the first
\* game at it showed the first venue; then a fifth venue is counted
C18_Witness ==
    /\ index = 6
    /\ OfType(BadgesAt(1), "venue-count") = <<Badge("venue-count", <<"Arena1">>, 1, FALSE)>>
    /\ OfType(BadgesAt(1), "venue-visit") = << >>
    /\ OfType(BadgesAt(5), "venue-visit") = <<Badge("venue-visit", <<"Arena1">>, 5, FALSE)>>
    /\ OfType(BadgesAt(5), "venue-count") = << >>
    /\ allGames[6].Venue = "Arena5"

-----------------------------------------------------------------------------
(* SpecSummary: every game is on one of five consecutive calendar days     *)

MaxSummaryGames == 4

\* 27 February to 2 March of a leap year
SummaryDays ==
    << D(<<2, 0, 2, 4, 0, 2, 2, 7>>), D(<<2, 0, 2, 4, 0, 2, 2, 8>>),
       D(<<2, 0, 2, 4, 0, 2, 2, 9>>), D(<<2, 0, 2, 4, 0, 3, 0, 1>>),
       D(<<2, 0, 2, 4, 0, 3, 0, 2>>) >>

SummaryGames ==
    { [NoGame EXCEPT !.DateSort = d, !.AwayTeam = "TeamX", !.HomeTeam = "TeamY"]
      : d \in SeqToSet(SummaryDays) }

InitSummary ==
    /\ \E gs \in SeqsUpTo(SummaryGames, MaxSummaryGames) :
          Loaded([ games |-> WithIds(gs), playerGames |-> << >>,
                   conferenceChecklist |-> NoChecklist, teamAliases |-> EmptyMap,
                   teams |-> << >> ])
    /\ sortImpl = "timsort"
    /\ now = D(<<2, 0, 2, 4, 0, 1, 0, 1>>)

SpecSummary == InitSummary /\ [][Next]_vars

-----------------------------------------------------------------------------
(* C19: the streak summary after the pass                                  *)

\* the days of the calendar, by position, that have a game
DaysWithGames ==
    {k \in 1..Len(SummaryDays) :
        \E j \in 1..Len(allGames) : allGames[j].DateSort = SummaryDays[k]}

RECURSIVE RunsFrom(_, _)
\* the lengths of the maximal runs of consecutive days of S from day k on,
\* in calendar order
RunsFrom(S, k) ==
    IF k > Len(SummaryDays) THEN << >>
    ELSE IF k \notin S THEN RunsFrom(S, k + 1)
    ELSE LET last == CHOOSE b \in k..Len(SummaryDays) :
                        /\ \A d \in k..b : d \in S
                        /\ b + 1 \notin S
         IN  <<last - k + 1>> \o RunsFrom(S, last + 1)

\* C19: after the pass on validly dated games, maxStreak is the length of
\* the longest run of consecutive calendar days that each have a game, and
\* streakHistory lists, in calendar order, the lengths of all maximal runs
\* of at least two days, the run that ends with the last game included;
\* every entry is at least 2 and at most maxStreak
C19_StreakSummary ==
    pc = "done" =>
        LET runs == RunsFrom(DaysWithGames, 1)
        IN  /\ \A n \in 0..Len(SummaryDays) :
                  badgeTrackingData.maxStreak = n <=>
                      /\ \A k \in 1..Len(runs) : runs[k] <= n
                      /\ n = 0 \/ \E k \in 1..Len(runs) : runs[k] = n
            /\ badgeTrackingData.streakHistory = SelectSeq(runs, LAMBDA n : n >= 2)
            /\ \A k \in 1..Len(badgeTrackingData.streakHistory) :
                  /\ badgeTrackingData.streakHistory[k] >= 2
                  /\ badgeTrackingData.streakHistory[k] <= badgeTrackingData.maxStreak

\* games on 27 and 28 February, none on the 29th, games on 1 and 2 March:
\* a closed run and the run open at the last game
C19_Witness ==
    /\ pc = "done"
    /\ DaysWithGames = {1, 2, 4, 5}
    /\ badgeTrackingData.streakHistory = <<2, 2>>
    /\ badgeTrackingData.maxStreak = 2

-----------------------------------------------------------------------------
(* SpecRoster: a conference of three listed teams, and a game whose own    *)
(* conference field puts a fourth team in it                               *)

MaxRosterGames == 3

\* t = <<gender, away, home, AwayConf>>, all on one day
RosterGames ==
    { [NoGame EXCEPT !.DateSort = Day(<<0, 1>>), !.Gender = t[1], !.AwayTeam = t[2],
                     !.HomeTeam = t[3], !.AwayConf = t[4]]
      : t \in { <<"M", "TeamA", "TeamC", "">>,
                <<"M", "TeamB", "TeamQ", "">>,
                <<"M", "TeamQ", "TeamA", "Alpha">>,
                <<"W", "TeamA", "TeamC", "">> } }

InitRoster ==
    /\ \E gs \in SeqsUpTo(RosterGames, MaxRosterGames) :
          Loaded([ games |-> WithIds(gs), playerGames |-> << >>,
                   conferenceChecklist |-> ConfChecklist, teamAliases |-> EmptyMap,
                   teams |-> << >> ])
    /\ sortImpl = "timsort"
    /\ now = D(<<2, 0, 2, 4, 0, 1, 0, 1>>)

SpecRoster == InitRoster /\ [][Next]_vars

-----------------------------------------------------------------------------
(* C20: a completed conference has had all its teams seen                  *)

\* the team names listed in a roster
RosterOf(e) == {e.teams[k].team : k \in 1..Len(e.teams)}

\* team has played, away or home, in a game of gender among the first i
HasAppeared(team, gender, i) ==
    \E k \in 1..i :
        /\ GendersOf(allGames[k]) = gender
        /\ team \in {allGames[k].AwayTeam, allGames[k].HomeTeam}

\* C20 as stated: when a game has a conf-complete badge for a conference,
\* every team listed in the roster of the conference has appeared in a game
\* of the same gender at or before that game
C20_AsStated ==
    \A i \in 1..index : \A e \in SeqToSet(DATA.conferenceChecklist) :
        CompleteBadges(i, e.confName) # << >> =>
            \A team \in RosterOf(e) : HasAppeared(team, GendersOf(allGames[i]), i)

-----------------------------------------------------------------------------
(* C21: the conference counter counts the teams of both genders            *)

\* the conferences of the two sides of a game that the conference loop
\* does not skip
ConfsOf(game) ==
    {getGameConference(game, "away"), getGameConference(game, "home")}
        \ {"", "Historical/Other"}

\* the new-conf badges of the i-th game that name conf
NewConfBadges(i, conf) ==
    SelectSeq(BadgesAt(i), LAMBDA b : b.type = "new-conf" /\ b.who[1] = conf)

\* C21: after every game the team counter of each conference that is not
\* skipped is the size of its men's seen-set plus the size of its women's
\* seen-set; a game has one new-conf badge for a conference iff one of its
\* sides resolves to the conference and no side of an earlier game, of
\* either gender, did
C21_ConfCounter ==
    pc = "loop" =>
        \A conf \in UNION {ConfsOf(allGames[k]) : k \in 1..Len(allGames)} :
            /\ Get(fn.confTeamCounts, conf, 0) =
                  Cardinality(Get(fn.confTeamsSeen, <<conf, "M">>, {}))
                  + Cardinality(Get(fn.confTeamsSeen, <<conf, "W">>, {}))
            /\ \A i \in 1..index :
                  Len(NewConfBadges(i, conf)) =
                      IF /\ conf \in ConfsOf(allGames[i])
                         /\ \A j \in 1..(i - 1) : conf \notin ConfsOf(allGames[j])
                      THEN 1 ELSE 0

\* a men's game shows the first team of a conference; a later women's game
\* shows the first women's team of it and has no new-conf badge for it
C21_Witness ==
    /\ pc = "loop"
    /\ index = 2
    /\ GendersOf(allGames[1]) = "M"
    /\ GendersOf(allGames[2]) = "W"
    /\ Len(NewConfBadges(1, "Alpha")) = 1
    /\ "Alpha" \in ConfsOf(allGames[2])
    /\ Len(NewConfBadges(2, "Alpha")) = 0
    /\ fn.confTeamCounts["Alpha"] = 2
    /\ fn.confTeamsSeen[<<"Alpha", "M">>] = {"TeamX"}
    /\ fn.confTeamsSeen[<<"Alpha", "W">>] = {"TeamX"}

-----------------------------------------------------------------------------
(* SpecMatchup: pairings in both orders, in both genders, within one       *)
(* conference and across conferences, and a game with one team name        *)

MaxMatchupGames == 3

\* t = <<day, gender, away, home>>
MatchupGames ==
    { [NoGame EXCEPT !.DateSort = Day(t[1]), !.Gender = t[2], !.AwayTeam = t[3],
                     !.HomeTeam = t[4]]
      : t \in { <<<<0, 1>>, "M", "TeamX", "TeamY">>,
                <<<<0, 2>>, "M", "TeamY", "TeamX">>,
                <<<<0, 3>>, "W", "TeamX", "TeamY">>,
                <<<<0, 2>>, "M", "",      "TeamY">>,
                <<<<0, 2>>, "M", "TeamX", "TeamZ">>,
                <<<<0, 3>>, "W", "TeamZ", "TeamY">>,
                <<<<0, 1>>, "M", "TeamV", "TeamY">> } }

InitMatchup ==
    /\ \E gs \in SeqsUpTo(MatchupGames, MaxMatchupGames) : Loaded(BadgeData(WithIds(gs)))
    /\ sortImpl = "timsort"
    /\ now = D(<<2, 0, 2, 4, 0, 1, 0, 1>>)

SpecMatchup == InitMatchup /\ [][Next]_vars

-----------------------------------------------------------------------------
(* C22: the new-matchup badge                                              *)

\* games j and i are of the same gender and between the same two teams, in
\* either order
SamePairing(j, i) ==
    /\ GendersOf(allGames[j]) = GendersOf(allGames[i])
    /\ \/ allGames[j].AwayTeam = allGames[i].AwayTeam
          /\ allGames[j].HomeTeam = allGames[i].HomeTeam
       \/ allGames[j].AwayTeam = allGames[i].HomeTeam
          /\ allGames[j].HomeTeam = allGames[i].AwayTeam

\* C22: a game has a new-matchup badge (one) iff both team names are
\* non-empty and no earlier processed game of the same gender had the same
\* two teams in either order
C22_NewMatchup ==
    \A i \in 1..index :
        Len(OfType(BadgesAt(i), "new-matchup")) =
            IF /\ allGames[i].AwayTeam # ""
               /\ allGames[i].HomeTeam # ""
               /\ \A j \in 1..(i - 1) : ~SamePairing(j, i)
            THEN 1 ELSE 0

\* TeamX at TeamY (men) has the badge, TeamY at TeamX (men) has none, TeamX
\* at TeamY (women) has its own
C22_Witness ==
    /\ index = 3
    /\ allGames[1].AwayTeam = "TeamX" /\ allGames[1].HomeTeam = "TeamY"
    /\ allGames[2].AwayTeam = "TeamY" /\ allGames[2].HomeTeam = "TeamX"
    /\ allGames[3].AwayTeam = "TeamX" /\ allGames[3].HomeTeam = "TeamY"
    /\ [i \in 1..3 |-> GendersOf(allGames[i])] = <<"M", "M", "W">>
    /\ [i \in 1..3 |-> Len(OfType(BadgesAt(i), "new-matchup"))] = <<1, 0, 1>>

-----------------------------------------------------------------------------
(* C23: the conf-matchup badge and the pairing counters                    *)

awayConfOf(i) == getGameConference(allGames[i], "away")

homeConfOf(i) == getGameConference(allGames[i], "home")

\* game i is a game between conferences a and b, in either order
Between(i, a, b) ==
    \/ awayConfOf(i) = a /\ homeConfOf(i) = b
    \/ awayConfOf(i) = b /\ homeConfOf(i) = a

\* the conferences that a side of a game of the stream resolves to
ConfsInStream ==
    UNION {{awayConfOf(k), homeConfOf(k)} : k \in 1..Len(allGames)} \ {""}

\* a game between two teams of one conference, or with a side that has no
\* conference, changes no pairing counter
C23_Step ==
    (pc = "loop" /\ index' = index + 1
       /\ (awayConfOf(index + 1) = homeConfOf(index + 1)
             \/ "" \in {awayConfOf(index + 1), homeConfOf(index + 1)})) =>
        fn'.confMatchupCounts = fn.confMatchupCounts

\* the badges so far and the counters
C23_State ==
    /\ \A i \in 1..index :
          Len(OfType(BadgesAt(i), "conf-matchup")) =
              IF /\ awayConfOf(i) # ""
                 /\ homeConfOf(i) # ""
                 /\ awayConfOf(i) # homeConfOf(i)
                 /\ \A j \in 1..(i - 1) : ~Between(j, awayConfOf(i), homeConfOf(i))
              THEN 1 ELSE 0
    /\ pc = "loop" =>
          \A a, b \in ConfsInStream :
              a # b => Get(fn.confMatchupCounts, SortedPairKey(a, b), 0) =
                          Cardinality({k \in 1..index : Between(k, a, b)})

\* C23: a game has a conf-matchup badge (one) iff the conferences of both
\* sides are non-empty and different and no earlier processed game, of any
\* gender, was between the same two conferences; after every game the
\* counter of each pair of conferences is the number of processed games
\* between the two; a game within one conference changes no counter
C23_ConfMatchup == [](C23_State) /\ [][C23_Step]_vars

\* Alpha at Beta has the badge, Beta at Alpha has none, a game within Alpha
\* leaves the counter of the pair at 2
C23_Witness ==
    /\ pc = "loop"
    /\ index = 3
    /\ <<awayConfOf(1), homeConfOf(1)>> = <<"Alpha", "Beta">>
    /\ <<awayConfOf(2), homeConfOf(2)>> = <<"Beta", "Alpha">>
    /\ <<awayConfOf(3), homeConfOf(3)>> = <<"Alpha", "Alpha">>
    /\ [i \in 1..3 |-> Len(OfType(BadgesAt(i), "conf-matchup"))] = <<1, 0, 0>>
    /\ fn.confMatchupCounts[SortedPairKey("Alpha", "Beta")] = 2

-----------------------------------------------------------------------------
(* SpecTransfer: one appearance record per game, of a player with or       *)
(* without a player_id, and possibly one older record of no game of the    *)
(* stream                                                                  *)

MaxTransferGames == 3

\* t = <<day, away, home, player_id, player, team, previous schools>>
TransferTemplates ==
    { <<<<0, 1>>, "TeamZ", "TeamX", "p1", "Ann Lee", "TeamZ", << >>>>,
      <<<<0, 2>>, "TeamZ", "TeamY", "p1", "Ann Lee", "TeamY", <<"TeamZ">>>>,
      <<<<0, 3>>, "TeamZ", "TeamY", "p1", "Ann Lee", "TeamZ", <<"TeamY">>>>,
      <<<<0, 1>>, "TeamZ", "TeamX", "",   "Ann Lee", "TeamZ", << >>>>,
      <<<<0, 2>>, "TeamZ", "TeamY", "",   "Ann Lee", "TeamY", <<"TeamZ">>>> }

\* an appearance at TeamZ on 31 December 2023, in a game that is not in
\* DATA.games
ArchiveRecord(player_id) ==
    [ game_id |-> Decimal(0), player_id |-> player_id, player |-> "Ann Lee",
      team |-> "TeamZ", realgm_previous_schools |-> << >>,
      date_yyyymmdd |-> D(<<2, 0, 2, 3, 1, 2, 3, 1>>) ]

Archives == { << >>, <<ArchiveRecord("p1")>>, <<ArchiveRecord("")>> }

\* the record of a game carries the game's id and the game's date
TransferData(ts, archive) ==
    [ games |->
        [i \in 1..Len(ts) |->
            [NoGame EXCEPT !.GameID = Decimal(i), !.DateSort = Day(ts[i][1]),
                           !.AwayTeam = ts[i][2], !.HomeTeam = ts[i][3]]],
      playerGames |->
        archive \o
        [i \in 1..Len(ts) |->
            [ game_id |-> Decimal(i), player_id |-> ts[i][4], player |-> ts[i][5],
              team |-> ts[i][6], realgm_previous_schools |-> ts[i][7],
              date_yyyymmdd |-> Day(ts[i][1]) ]],
      conferenceChecklist |-> NoChecklist, teamAliases |-> EmptyMap, teams |-> << >> ]

InitTransfer ==
    /\ \E ts \in SeqsUpTo(TransferTemplates, MaxTransferGames), archive \in Archives :
          Loaded(TransferData(ts, archive))
    /\ sortImpl = "timsort"
    /\ now = D(<<2, 0, 2, 4, 0, 1, 0, 1>>)

SpecTransfer == InitTransfer /\ [][Next]_vars

-----------------------------------------------------------------------------
(* C24: the transfer rule                                                  *)

\* gamePlayers of the i-th game of the sorted array
RecordsOf(i) ==
    SelectSeq(DATA.playerGames, LAMBDA pg : pg.game_id = GameIdOf(allGames[i], i - 1))

\* pg.player_id || pg.player
KeyOf(pg) == IF pg.player_id # "" THEN pg.player_id ELSE pg.player

\* the transfer badges of the i-th game in gm
TransfersIn(gm, i) == OfType(BadgesIn(gm, i), "transfer")

\* the step on a game with one appearance record, of a player with a team:
\* the badge is emitted iff the known schools, after the seeding of a player
\* seen for the first time, are not empty and do not include the team; the
\* team is then among the known schools
C24_Step ==
    (pc = "loop" /\ index' = index + 1 /\ Len(RecordsOf(index + 1)) = 1) =>
        LET pg == RecordsOf(index + 1)[1]
            known == IF Has(fn.playerTeams, KeyOf(pg))
                     THEN SeqToSet(fn.playerTeams[KeyOf(pg)].teams)
                     ELSE SeqToSet(SeedTeams(<< >>, KeyOf(pg), pg.player,
                                             pg.realgm_previous_schools,
                                             allGames[index + 1].DateSort))
        IN  (KeyOf(pg) # "" /\ pg.team # "") =>
                /\ Len(TransfersIn(gameMilestones', index + 1)) =
                      IF known # {} /\ pg.team \notin known THEN 1 ELSE 0
                /\ SeqToSet(fn'.playerTeams[KeyOf(pg)].teams) = known \cup {pg.team}
                /\ \A id \in DOMAIN fn.playerTeams \ {KeyOf(pg)} :
                      fn'.playerTeams[id] = fn.playerTeams[id]

\* the processed games in which the player is with the team
GamesWith(id, team) ==
    {i \in 1..index : \E k \in 1..Len(RecordsOf(i)) :
        KeyOf(RecordsOf(i)[k]) = id /\ RecordsOf(i)[k].team = team}

\* at most one badge per player and team, and none for a player seen with
\* one school only and no seeded school
C24_State ==
    pc = "loop" =>
        \A id \in DOMAIN fn.playerTeams :
            /\ \A team \in SeqToSet(fn.playerTeams[id].teams) :
                  Cardinality({i \in GamesWith(id, team) :
                                   TransfersIn(gameMilestones, i) # << >>}) <= 1
            /\ Len(fn.playerTeams[id].teams) = 1 =>
                  \A team \in SeqToSet(fn.playerTeams[id].teams) :
                      \A i \in GamesWith(id, team) : TransfersIn(gameMilestones, i) = << >>

\* C24: on an appearance of a player with a non-empty team, a transfer
\* badge is emitted iff the known schools of the player are not empty and do
\* not contain the team, and the team is added in every case; so there is at
\* most one transfer badge per player and team, none on a return to a
\* school, and none for a player with one school and no seeded school
C24_TransferRule == [][C24_Step]_vars /\ [](C24_State)

\* the player is seen at TeamZ, then at TeamY with a badge, then back at
\* TeamZ without one
C24_Witness ==
    /\ pc = "loop"
    /\ index = 3
    /\ [i \in 1..3 |-> RecordsOf(i)[1].team] = <<"TeamZ", "TeamY", "TeamZ">>
    /\ \A i \in 1..3 : RecordsOf(i)[1].player_id = "p1"
    /\ [i \in 1..3 |-> Len(TransfersIn(gameMilestones, i))] = <<0, 1, 0>>
    /\ fn.playerTeams["p1"].teams = <<"TeamZ", "TeamY">>

-----------------------------------------------------------------------------
(* C25: the seeding of the known schools                                   *)

\* pg2 is a record of the player of pg: the same player_id, or the same
\* name when pg has no player_id
SamePlayer(pg, pg2) ==
    IF pg.player_id # "" THEN pg2.player_id = pg.player_id
    ELSE pg2.player # "" /\ toLowerCase(pg2.player) = toLowerCase(pg.player)

\* a record shows the player of pg at school before date
OnRecordBefore(pg, school, date) ==
    \E k \in 1..Len(DATA.playerGames) :
        /\ SamePlayer(pg, DATA.playerGames[k])
        /\ DATA.playerGames[k].team = school
        /\ StrLess(DATA.playerGames[k].date_yyyymmdd, date)

\* C25 as stated: when a player is seen for the first time, a school of the
\* previous-schools list is added to the known schools iff a record of the
\* same player, by player_id or else by name, shows the player at the school
\* before the date of the game; the appearance then has a transfer badge
\* when such a school is not the current team
C25_AsStated ==
    [][(pc = "loop" /\ index' = index + 1 /\ Len(RecordsOf(index + 1)) = 1) =>
        LET pg == RecordsOf(index + 1)[1]
            date == allGames[index + 1].DateSort
        IN  (KeyOf(pg) # "" /\ pg.team # "" /\ ~Has(fn.playerTeams, KeyOf(pg))) =>
                \A school \in SeqToSet(pg.realgm_previous_schools) \ {pg.team} :
                    /\ school \in SeqToSet(fn'.playerTeams[KeyOf(pg)].teams)
                          <=> OnRecordBefore(pg, school, date)
                    /\ OnRecordBefore(pg, school, date) =>
                          Len(TransfersIn(gameMilestones', index + 1)) = 1]_vars

-----------------------------------------------------------------------------
(* C26: on self-consistent records the seeding adds nothing                *)

\* every record has a team and is the record of a game of DATA.games, with
\* the date of that game
SelfConsistent ==
    \A k \in 1..Len(DATA.playerGames) :
        /\ DATA.playerGames[k].team # ""
        /\ \E j \in 1..Len(DATA.games) :
              /\ DATA.games[j].GameID = DATA.playerGames[k].game_id
              /\ DATA.games[j].DateSort = DATA.playerGames[k].date_yyyymmdd

\* the teams of the player of key id in the records of the first i games
TeamsUpTo(id, i) ==
    UNION { {RecordsOf(j)[k].team : k \in {n \in 1..Len(RecordsOf(j)) :
                                                KeyOf(RecordsOf(j)[n]) = id}}
            : j \in 1..i }

\* C26: when every record has a team, belongs to a game of the stream and
\* carries the date of that game, the known schools of a player are the
\* teams of the processed appearances, none comes from the seeding; a game
\* with one appearance has a transfer badge iff the player has an earlier
\* processed appearance and the team differs from the teams of all of them
C26_SeedingAddsNothing ==
    (SelfConsistent /\ pc = "loop") =>
        /\ \A id \in DOMAIN fn.playerTeams :
              SeqToSet(fn.playerTeams[id].teams) = TeamsUpTo(id, index)
        /\ \A i \in 1..index :
              Len(RecordsOf(i)) = 1 =>
                  LET pg == RecordsOf(i)[1]
                      earlier == TeamsUpTo(KeyOf(pg), i - 1)
                  IN  Len(TransfersIn(gameMilestones, i)) =
                          IF earlier # {} /\ pg.team \notin earlier THEN 1 ELSE 0

\* a player is first seen at TeamY with TeamZ listed as previous school;
\* the only record at TeamZ is of the next game, so nothing is seeded and
\* the badge comes with the second game
C26_Witness ==
    /\ SelfConsistent
    /\ pc = "loop"
    /\ index = 2
    /\ RecordsOf(1)[1].player_id = "p1" /\ RecordsOf(2)[1].player_id = "p1"
    /\ RecordsOf(1)[1].team = "TeamY"
    /\ RecordsOf(1)[1].realgm_previous_schools = <<"TeamZ">>
    /\ RecordsOf(2)[1].team = "TeamZ"
    /\ [i \in 1..2 |-> Len(TransfersIn(gameMilestones, i))] = <<0, 1>>

-----------------------------------------------------------------------------
(* SpecMalformed: three calendar days and three values of DateSort that    *)
(* are not of the form YYYYMMDD                                            *)

MaxMalformedGames == 3

\* "202401" (too short), "2024013x" (not numeric), "202401310" (too long)
MalformedDates ==
    { D(<<2, 0, 2, 4, 0, 1>>), BadDate, D(<<2, 0, 2, 4, 0, 1, 3, 1, 0>>) }

MalformedGames ==
    { [NoGame EXCEPT !.DateSort = d, !.AwayTeam = "TeamX", !.HomeTeam = "TeamY"]
      : d \in {StreakDays[1], StreakDays[2], StreakDays[3]} \cup MalformedDates }

InitMalformed ==
    /\ \E gs \in SeqsUpTo(MalformedGames, MaxMalformedGames) :
          Loaded([ games |-> WithIds(gs), playerGames |-> << >>,
                   conferenceChecklist |-> NoChecklist, teamAliases |-> EmptyMap,
                   teams |-> << >> ])
    /\ sortImpl = "timsort"
    /\ now = D(<<2, 0, 2, 4, 0, 1, 0, 1>>)

SpecMalformed == InitMalformed /\ [][Next]_vars

-----------------------------------------------------------------------------
(* C27: malformed dates                                                    *)

\* non-empty, and of the wrong length or not numeric
IsMalformed(dateSort) ==
    dateSort # << >> /\ (Len(dateSort) # 8 \/ ~AllDigits(dateSort))

\* C27 as stated: a game with a malformed dateSort raises no exception,
\* has currentStreak 1 and no streak badge, and a streak of 2 or more that
\* was running before it is pushed onto streakHistory and folded into
\* maxStreak
C27_AsStated ==
    [][(pc = "loop" /\ index < Len(allGames)
          /\ IsMalformed(allGames[index + 1].DateSort)) =>
        /\ pc' = "loop"
        /\ index' = index + 1
        /\ fn'.currentStreak = 1
        /\ OfType(BadgesIn(gameMilestones', index + 1), "streak") = << >>
        /\ fn.currentStreak >= 2 =>
              /\ fn'.streakHistory = Append(fn.streakHistory, fn.currentStreak)
              /\ fn'.maxStreak = Max(fn.maxStreak, fn.currentStreak)]_vars

-----------------------------------------------------------------------------
(* SpecD1Teams: a roster of six names, one of them an alias and one with   *)
(* an alias, a history that shows four of them, then a few games           *)

MaxD1TeamGames == 3

D1Checklist ==
    << [confName |-> "Alpha", totalTeams |-> 6,
        teams |-> <<[team |-> "TeamA", name |-> ""], [team |-> "TeamB", name |-> ""],
                    [team |-> "TeamC", name |-> ""], [team |-> "TeamD", name |-> ""],
                    [team |-> "UConn", name |-> ""], [team |-> "TeamE", name |-> ""]>>],
       [confName |-> "All D1", totalTeams |-> 1,
        teams |-> <<[team |-> "TeamS", name |-> ""]>>] >>

\* alias -> canonical name
D1Aliases == [a \in {"UConn", "TE"} |-> IF a = "UConn" THEN "Connecticut" ELSE "TeamE"]

\* t = <<day, gender, away, home>>
D1TeamGame(t) ==
    [NoGame EXCEPT !.DateSort = Day(t[1]), !.Gender = t[2], !.AwayTeam = t[3],
                   !.HomeTeam = t[4]]

D1TeamHistories ==
    { << >>,
      <<D1TeamGame(<<<<0, 1>>, "M", "TeamA", "TeamB">>),
        D1TeamGame(<<<<0, 1>>, "M", "TeamC", "TeamD">>)>> }

D1TeamGames ==
    { D1TeamGame(t) :
        t \in { <<<<0, 2>>, "M", "Connecticut", "TeamQ">>,
                <<<<0, 2>>, "M", "TE",          "TeamS">>,
                <<<<0, 2>>, "M", "UConn",       "TeamA">>,
                <<<<0, 3>>, "W", "TeamA",       "TeamB">>,
                <<<<0, 2>>, "M", "TeamQ",       "TeamS">> } }

InitD1Teams ==
    /\ \E h \in D1TeamHistories, gs \in SeqsUpTo(D1TeamGames, MaxD1TeamGames) :
          Loaded([ games |-> WithIds(h \o gs), playerGames |-> << >>,
                   conferenceChecklist |-> D1Checklist, teamAliases |-> D1Aliases,
                   teams |-> << >> ])
    /\ sortImpl = "timsort"
    /\ now = D(<<2, 0, 2, 4, 0, 1, 0, 1>>)

SpecD1Teams == InitD1Teams /\ [][Next]_vars

-----------------------------------------------------------------------------
(* C28: the d1-team milestones                                             *)

\* the names listed in the rosters of the conferences that are not sentinels
RosterNames ==
    UNION { RosterOf(DATA.conferenceChecklist[i]) :
              i \in {j \in 1..Len(DATA.conferenceChecklist) :
                        DATA.conferenceChecklist[j].confName
                            \notin {"All D1", "Historical/Other"}} } \ {""}

\* the roster names, the canonical name of a roster name that is an alias,
\* and the aliases of a roster name that is canonical
TopDivision ==
    RosterNames
    \cup {DATA.teamAliases[a] : a \in RosterNames \cap DOMAIN DATA.teamAliases}
    \cup {a \in DOMAIN DATA.teamAliases : DATA.teamAliases[a] \in RosterNames}

\* the top-division teams that have appeared in a game of gender among the
\* first i: one first appearance each
D1TeamsUpTo(gender, i) == {team \in TopDivision : HasAppeared(team, gender, i)}

\* the numbers shown by the d1-team badges of the i-th game
D1TeamShown(i) ==
    LET shown == OfType(BadgesAt(i), "d1-team") IN [k \in 1..Len(shown) |-> shown[k].n]

\* the multiples of 5 up to 100 in from+1..to, in increasing order
MilestonesReached(from, to) ==
    LET hit(n) == n \in {5, 10, 15, 20, 25, 30, 35, 40, 45, 50,
                         55, 60, 65, 70, 75, 80, 85, 90, 95, 100}
    IN  SelectSeq([k \in 1..(to - from) |-> from + k], hit)

\* C28: the per-gender seen-set is the set of top-division teams that have
\* had a first appearance in that gender; a game has the d1-team badge
\* showing N, a multiple of 5 up to 100, exactly when the size of the set of
\* its gender reaches N in that game, and then the game has the new-team
\* badge of a top-division team
C28_D1Teams ==
    /\ pc = "loop" =>
          \A gender \in {"M", "W"} : fn.d1TeamsSeen[gender] = D1TeamsUpTo(gender, index)
    /\ \A i \in 1..index :
          /\ D1TeamShown(i) =
                MilestonesReached(Cardinality(D1TeamsUpTo(GendersOf(allGames[i]), i - 1)),
                                  Cardinality(D1TeamsUpTo(GendersOf(allGames[i]), i)))
          /\ D1TeamShown(i) # << >> =>
                \E k \in 1..Len(BadgesAt(i)) :
                    /\ BadgesAt(i)[k].type = "new-team"
                    /\ BadgesAt(i)[k].who[1] \in TopDivision
                    /\ ~HasAppeared(BadgesAt(i)[k].who[1], GendersOf(allGames[i]), i - 1)

\* after four roster teams, the canonical name of the roster alias UConn is
\* the fifth men's team; the women's set has two teams and no badge
C28_Witness ==
    /\ pc = "loop"
    /\ index = 4
    /\ allGames[3].AwayTeam = "Connecticut"
    /\ D1TeamShown(3) = <<5>>
    /\ GendersOf(allGames[4]) = "W"
    /\ D1TeamShown(4) = << >>
    /\ fn.d1TeamsSeen["M"] = {"TeamA", "TeamB", "TeamC", "TeamD", "Connecticut"}
    /\ fn.d1TeamsSeen["W"] = {"TeamA", "TeamB"}

-----------------------------------------------------------------------------
(* C29: the conference seen-sets and the sides without a team name         *)

\* C29 as stated: after every game no seen-set holds the empty name, the
\* team counter of a conference is at most the number of (team, gender)
\* pairs with a team name that the games have shown for it, and a game
\* has a new-conf or conf-complete badge for a conference only if one of
\* its sides with a team name is in that conference
C29_AsStated ==
    pc \in {"loop", "done"} =>
        /\ \A key \in DOMAIN fn.confTeamsSeen : "" \notin fn.confTeamsSeen[key]
        /\ \A conf \in DOMAIN fn.confTeamCounts :
              fn.confTeamCounts[conf] <=
                  Cardinality(TeamsSeenBy(conf, "M", index))
                      + Cardinality(TeamsSeenBy(conf, "W", index))
        /\ \A i \in 1..index : \A conf \in ConfsOf(allGames[i]) :
              Len(NewConfBadges(i, conf)) + Len(CompleteBadges(i, conf)) > 0 =>
                  TeamsOfConfIn(allGames[i], conf) # {}

-----------------------------------------------------------------------------
(* SpecRecord: wins by either side, a tie, a game whose two sides have the *)
(* same team name, a side without a name                                   *)

MaxRecordGames == 3

\* t = <<gender, away, home, away score, home score>>, all on one day
RecordGames ==
    { [NoGame EXCEPT !.DateSort = Day(<<0, 1>>), !.Gender = t[1], !.AwayTeam = t[2],
                     !.HomeTeam = t[3], !.AwayScore = t[4], !.HomeScore = t[5]]
      : t \in { <<"M", "TeamX", "TeamY", 70, 60>>,
                <<"M", "TeamX", "TeamY", 55, 65>>,
                <<"M", "TeamY", "TeamX", 60, 60>>,
                <<"M", "TeamX", "TeamX", 70, 60>>,
                <<"W", "TeamX", "TeamY", 70, 60>>,
                <<"M", "",      "TeamY", 70, 60>>,
                <<"M", "TeamY", "TeamX", 0,  0>> } }

InitRecord ==
    /\ \E gs \in SeqsUpTo(RecordGames, MaxRecordGames) :
          Loaded([ games |-> WithIds(gs), playerGames |-> << >>,
                   conferenceChecklist |-> NoChecklist, teamAliases |-> EmptyMap,
                   teams |-> << >> ])
    /\ sortImpl = "timsort"
    /\ now = D(<<2, 0, 2, 4, 0, 1, 0, 1>>)

SpecRecord == InitRecord /\ [][Next]_vars

-----------------------------------------------------------------------------
(* C30: the win/loss record                                                *)

\* the wins recorded for a (team, gender) key
WinsOf(f, teamKey) == IF Has(f.teamRecords, teamKey) THEN f.teamRecords[teamKey].wins ELSE 0

\* the sides of game that carry the name team and have the strictly
\* higher score
WinningSides(game, team) ==
    {side \in {"away", "home"} :
        \/ side = "away" /\ game.AwayTeam = team /\ game.AwayScore > game.HomeScore
        \/ side = "home" /\ game.HomeTeam = team /\ game.HomeScore > game.AwayScore}

C30_State ==
    pc \in {"loop", "done"} =>
        \A teamKey \in DOMAIN fn.teamRecords :
            fn.teamRecords[teamKey].wins + fn.teamRecords[teamKey].losses
                = Get(fn.teamCounts, teamKey, 0)

C30_Step ==
    (pc = "loop" /\ index' = index + 1) =>
        LET game == allGames[index + 1] IN
        \A team \in {game.AwayTeam, game.HomeTeam} \ {""} :
            WinsOf(fn', <<team, GendersOf(game)>>) - WinsOf(fn, <<team, GendersOf(game)>>)
                = Cardinality(WinningSides(game, team))

\* C30 as stated: after every game wins + losses of every (team, gender)
\* is its appearance counter, and a game adds to the record of a team one
\* win for each of its sides that has the strictly higher score and no
\* other win
C30_AsStated == [](C30_State) /\ [][C30_Step]_vars

====
